---------------------------- MODULE Spec2Model ----------------------------
(***************************************************************************)
(* A model of molrender3d's 3D exporters: the LZ4 block compressor, the    *)
(* USD integer coding, the USDZ (ZIP) container, the GLB and OBJ writers   *)
(* and the USD scene tree with its Crate writer.                           *)
(*                                                                         *)
(* Byte buffers are sequences of integers in 0..255.  Source indices are   *)
(* 0-based; a source index i is element i + 1 of the TLA+ sequence.        *)
(***************************************************************************)
EXTENDS Integers, Sequences, FiniteSets, TLC

VARIABLES
    lzSrc,      \* lz4Compress: the input buffer src
    lzOut,      \* lz4Compress: the returned buffer, or a failure marker
    lzPc,       \* "idle" | "ready" | "done"
    icValues,   \* usdInt32Compress: the input values
    icOut,      \* usdInt32Compress: the returned buffer
    icPc,       \* "idle" | "ready" | "done"
    zipFile,    \* getUsdzFromUsdc: the ByteArray usdc
    zipOut,     \* getUsdzFromUsdc: the returned archive
    zipPc,      \* "idle" | "writing" | "done" | "ints"
    zipInts,    \* the writeInt calls made on the ByteArray, in order
    renderables,\* create3DModel: the renderables of the scene still to be visited
    meshByColor,\* create3DModel / exportObj / exportGlb: the Map<Color, Mesh>, in
                \* insertion order
    objOut,     \* exportObj: the lines of the obj and of the mtl file
    glbOut,     \* exportGlb: the manifest, its text and the returned buffer
    meshPc,     \* "idle" | "grouping" | "ready" | "obj" | "glb" | "usdz" | "threw"
    usdPrims,   \* the UsdPrim objects, by identity; 0 is the UsdData root
    usdAtts,    \* the UsdAttribute objects, by identity
    crate,      \* the fields of the CrateFile
    usdStack,   \* writeUsd: the prims and attributes still to write, in order
    usdWritten, \* writeUsd: the prims and attributes written, in order
    usdPc,      \* "idle" | "new" | "indexed" | "boot" | "body" | "sections" | "done"
                \* | "returned" | "threw" | "calls"
    crateLog    \* the CrateFile methods called one by one, with what they returned

lzVars == <<lzSrc, lzOut, lzPc>>

icVars == <<icValues, icOut, icPc>>

zipVars == <<zipFile, zipOut, zipPc, zipInts>>

meshVars == <<renderables, meshByColor, objOut, glbOut, meshPc>>

usdVars == <<usdPrims, usdAtts, crate, usdStack, usdWritten, usdPc, crateLog>>

lzOthers == <<icVars, zipVars, meshVars, usdVars>>

icOthers == <<lzVars, zipVars, meshVars, usdVars>>

zipOthers == <<lzVars, icVars, meshVars, usdVars>>

meshOthers == <<lzVars, icVars, zipVars, usdVars>>

usdOthers == <<lzVars, icVars, zipVars, meshVars>>

vars == <<lzSrc, lzOut, lzPc, icValues, icOut, icPc, zipFile, zipOut, zipPc, zipInts,
          renderables, meshByColor, objOut, glbOut, meshPc,
          usdPrims, usdAtts, crate, usdStack, usdWritten, usdPc, crateLog>>

(***************************************************************************)
(* Generic helpers                                                         *)
(***************************************************************************)
Max(a, b) == IF a >= b THEN a ELSE b

Min(a, b) == IF a <= b THEN a ELSE b

RECURSIVE SumSeq(_)
SumSeq(s) == IF s = <<>> THEN 0 ELSE Head(s) + SumSeq(Tail(s))

\* the sequences of ss end to end, joined half by half
RECURSIVE Flatten(_)
Flatten(ss) ==
    IF ss = <<>> THEN <<>>
    ELSE IF Len(ss) = 1 THEN ss[1]
    ELSE Flatten(SubSeq(ss, 1, Len(ss) \div 2))
         \o Flatten(SubSeq(ss, Len(ss) \div 2 + 1, Len(ss)))

Zeros(n) == [i \in 1..n |-> 0]

Poke(s, p, b) == [i \in 1..Len(s) |-> IF i = p THEN b ELSE s[i]]

\* the exception values of the model (a JavaScript throw)
RangeError == <<"RangeError">>

BufferTooLarge == <<"Error", "Buffer too large for LZ4 compression">>

(***************************************************************************)
(* LZ4 block compressor                                                    *)
(***************************************************************************)
MAX_BLOCK_INPUT_SIZE == 2113929216

MAX_OFFSET == 65535

MIN_MATCH == 4

MFLIMIT == 12

\* 2654435761 (0x9E3779B1) reduced modulo the table size 4096: the hash keeps
\* only the low 12 bits of the 32-bit product, and those depend only on the
\* low 12 bits of each factor.
HASH_MULTIPLIER_LOW12 == 2481

HASH_TABLE_SIZE == 4096

\* PositionTable._hash
hash(val) == ((val % HASH_TABLE_SIZE) * HASH_MULTIPLIER_LOW12) % HASH_TABLE_SIZE

\* PositionTable: the Int32Array filled with -1, kept as the function of the
\* slots that were set
emptyPositionTable == <<>>

getPosition(table, val) ==
    IF hash(val) \in DOMAIN table THEN table[hash(val)] ELSE -1

setPosition(table, val, pos) == (hash(val) :> pos) @@ table

\* a byte read as the top byte of a 32-bit signed integer
SignedByte(b) == IF b >= 128 THEN b - 256 ELSE b

\* readLeUint32: the signed 32-bit value of the four bytes at pos (0-based)
readLeUint32(buf, pos) ==
    buf[pos + 1] + buf[pos + 2] * 256 + buf[pos + 3] * 65536
        + SignedByte(buf[pos + 4]) * 16777216

\* writeLeUint16 with the two bytes in the wrong order
writeLeUint16_BigEndian(val) == <<(val \div 256) % 256, val % 256>>

\* writeLeUint16
writeLeUint16(val) == <<val % 256, (val \div 256) % 256>>

\* countMatch running one byte further than max
countMatch_PastMax(buf, front, back, max) ==
    LET stops == { k \in 0..(max + 1 - back) : buf[front + k + 1] # buf[back + k + 1] }
    IN  IF back > max + 1 THEN 0
        ELSE IF stops = {} THEN max - back + 2
        ELSE CHOOSE k \in stops : \A m \in stops : k <= m

\* countMatch: the count at which the loop stops, either at the first k with
\* buf[front + k] !== buf[back + k] or when back + k passes max
countMatch(buf, front, back, max) ==
    LET stops == { k \in 0..(max - back) : buf[front + k + 1] # buf[back + k + 1] }
    IN  IF back > max THEN 0
        ELSE IF stops = {} THEN max - back + 1
        ELSE CHOOSE k \in stops : \A m \in stops : k <= m

\* the continuation bytes of a length of 15 or more: 255 while at least 255
\* remain, then the rest
RECURSIVE lengthBytes(_)
lengthBytes(remLen) ==
    IF remLen >= 255 THEN <<255>> \o lengthBytes(remLen - 255) ELSE <<remLen>>

\* copySequence: the bytes of one sequence (token, literal length, literal,
\* match offset, match length), written at dstHead
copySequence(literal, matchOffset, matchLen) ==
    LET litLen == Len(literal)
        hi == IF litLen >= 15 THEN 15 * 16 ELSE litLen * 16
        litExt == IF litLen >= 15 THEN lengthBytes(litLen - 15) ELSE <<>>
        ml == matchLen - MIN_MATCH
        lo == IF matchLen > 0 THEN (IF ml >= 15 THEN 15 ELSE ml) ELSE 0
        matchPart ==
            IF matchLen > 0
            THEN writeLeUint16(matchOffset)
                    \o (IF ml >= 15 THEN lengthBytes(ml - 15) ELSE <<>>)
            ELSE <<>>
    IN <<hi + lo>> \o litExt \o literal \o matchPart

\* one turn of the while loop of lz4CompressDefault; st.done is set by the
\* break and by the loop condition turning false
lz4Loop(src, st) ==
    LET MAX_INDEX == Len(src) - MFLIMIT
        curValue == readLeUint32(src, st.srcPtr)
        matchPos == getPosition(st.posTable, curValue)
    IN  IF st.done \/ ~(st.srcPtr < MAX_INDEX) THEN [st EXCEPT !.done = TRUE]
        ELSE IF /\ matchPos # -1
                /\ curValue = readLeUint32(src, matchPos)
                /\ st.srcPtr - matchPos <= MAX_OFFSET
        THEN LET length == countMatch(src, matchPos, st.srcPtr, MAX_INDEX)
             IN  IF length < MIN_MATCH THEN [st EXCEPT !.done = TRUE]
                 ELSE [st EXCEPT
                         !.dst = @ \o copySequence(
                                    SubSeq(src, st.literalHead + 1, st.srcPtr),
                                    st.srcPtr - matchPos, length),
                         !.srcPtr = @ + length,
                         !.literalHead = st.srcPtr + length,
                         !.seqs = Append(@, [literalHead |-> st.literalHead,
                                             matchPos |-> matchPos,
                                             srcPtr |-> st.srcPtr,
                                             length |-> length])]
        ELSE [st EXCEPT !.posTable = setPosition(@, curValue, st.srcPtr),
                        !.srcPtr = @ + 1]

\* n turns of the loop, taken half by half
RECURSIVE lz4Turns(_, _, _)
lz4Turns(src, st, n) ==
    IF n <= 0 \/ st.done THEN st
    ELSE IF n = 1 THEN lz4Loop(src, st)
    ELSE lz4Turns(src, lz4Turns(src, st, n \div 2), n - (n \div 2))

\* the loop run to its end (each turn but the last moves srcPtr forward, so
\* Len(src) + 1 turns end it), then the last literal; seqs collects, for
\* every sequence written, its literal start, match position, match start
\* and match length (0-based source indices)
lastLiteral(src, st) ==
    [dst |-> st.dst \o copySequence(SubSeq(src, st.literalHead + 1, Len(src)), 0, 0),
     seqs |-> st.seqs]

lz4Run(src) ==
    lastLiteral(src,
                lz4Turns(src,
                         [srcPtr |-> 0, literalHead |-> 0, dst |-> <<>>,
                          posTable |-> emptyPositionTable, seqs |-> <<>>, done |-> FALSE],
                         Len(src) + 1))

\* lz4CompressDefault: dst is allocated with worstCaseBlockLength bytes; the
\* view returned over its first dstPtr bytes cannot be longer than that
dstView(srcLen, dst) ==
    IF Len(dst) > srcLen + (srcLen \div 255) + 16 THEN RangeError ELSE dst

lz4CompressDefault(src) == dstView(Len(src), lz4Run(src).dst)

\* lz4Compress, after the block is compressed: the byte 0 and the block
withHeader(tmp) == IF tmp = RangeError THEN RangeError ELSE <<0>> \o tmp

lz4Compress(src) ==
    IF Len(src) = 0 THEN <<>>
    ELSE IF Len(src) > MAX_BLOCK_INPUT_SIZE THEN BufferTooLarge
    ELSE withHeader(lz4CompressDefault(src))

(***************************************************************************)
(* JavaScript numbers holding integers beyond 32 bits (a difference of two *)
(* 32-bit values): kept exactly as hi * 65536 + lo with lo in 0..65535.    *)
(***************************************************************************)
WORD == 65536

HALF_WORD == 32768

Num(v) == [hi |-> v \div WORD, lo |-> v % WORD]

NumSub(a, b) ==
    IF a.lo - b.lo < 0
    THEN [hi |-> a.hi - b.hi - 1, lo |-> a.lo - b.lo + WORD]
    ELSE [hi |-> a.hi - b.hi, lo |-> a.lo - b.lo]

NumAdd(a, b) ==
    IF a.lo + b.lo >= WORD
    THEN [hi |-> a.hi + b.hi + 1, lo |-> a.lo + b.lo - WORD]
    ELSE [hi |-> a.hi + b.hi, lo |-> a.lo + b.lo]

NumGt(a, b) == a.hi > b.hi \/ (a.hi = b.hi /\ a.lo > b.lo)

\* 0 <= n <= 0xFF taken for the 8-bit range
NumFitsInt8_Unsigned(n) == n.hi = 0 /\ n.lo <= 255

\* -0x80 <= n <= 0x7F
NumFitsInt8(n) == (n.hi = 0 /\ n.lo <= 127) \/ (n.hi = -1 /\ n.lo >= WORD - 128)

\* -0x8000 <= n <= 0x7FFF
NumFitsInt16(n) == (n.hi = 0 /\ n.lo < HALF_WORD) \/ (n.hi = -1 /\ n.lo >= HALF_WORD)

\* ToInt32 of DataView.setInt32 and of |0: the value modulo 2^32, signed
ToInt32(n) == (((n.hi + HALF_WORD) % WORD) - HALF_WORD) * WORD + n.lo

\* the little-endian bytes of an integer, two's complement, size bytes
RECURSIVE LeBytes(_, _)
LeBytes(v, size) ==
    IF size = 0 THEN <<>> ELSE <<v % 256>> \o LeBytes(v \div 256, size - 1)

\* the signed integer of little-endian two's complement bytes
RECURSIVE LeUnsigned(_)
LeUnsigned(bytes) ==
    IF bytes = <<>> THEN 0 ELSE Head(bytes) + 256 * LeUnsigned(Tail(bytes))

LeSigned(bytes) ==
    LET n == Len(bytes)
    IN  LeUnsigned(SubSeq(bytes, 1, n - 1) \o <<0>>)
            + SignedByte(bytes[n]) * (256 ^ (n - 1))

\* a | b on bytes
RECURSIVE BitOr(_, _)
BitOr(a, b) ==
    IF a = 0 THEN b
    ELSE IF b = 0 THEN a
    ELSE Max(a % 2, b % 2) + 2 * BitOr(a \div 2, b \div 2)

(***************************************************************************)
(* USD integer coding                                                      *)
(***************************************************************************)
\* the tally of the differences, a Map in insertion order: counts.set(value,
\* (counts.get(value) ?? 0) + 1)
countsSet(counts, value) ==
    IF \E k \in 1..Len(counts) : counts[k].value = value
    THEN [counts EXCEPT ![CHOOSE k \in 1..Len(counts) : counts[k].value = value].count
                            = @ + 1]
    ELSE Append(counts, [value |-> value, count |-> 1])

\* one turn of the tally loop: st = [i, preValue, counts]
tallyDelta(values, st) ==
    [i |-> st.i + 1,
     preValue |-> values[st.i + 1],
     counts |-> countsSet(st.counts, NumSub(Num(values[st.i + 1]), Num(st.preValue)))]

\* n turns of the tally loop, taken half by half
RECURSIVE tallyDeltas(_, _, _)
tallyDeltas(values, st, n) ==
    IF n <= 0 \/ ~(st.i < Len(values)) THEN st
    ELSE IF n = 1 THEN tallyDelta(values, st)
    ELSE tallyDeltas(values, tallyDeltas(values, st, n \div 2), n - (n \div 2))

\* the callback of counts.forEach keeping the difference met first on a tie
pickEntry_FirstOnTie(e, st) ==
    IF e.count > st.commonCount
    THEN [k |-> st.k + 1, commonValue |-> e.value, commonCount |-> e.count]
    ELSE [st EXCEPT !.k = @ + 1]

\* the callback of counts.forEach on the entry e: st = [k, commonValue,
\* commonCount], k the number of entries seen
pickEntry(e, st) ==
    IF e.count > st.commonCount
    THEN [k |-> st.k + 1, commonValue |-> e.value, commonCount |-> e.count]
    ELSE IF e.count = st.commonCount /\ NumGt(e.value, st.commonValue)
    THEN [k |-> st.k + 1, commonValue |-> e.value, commonCount |-> st.commonCount]
    ELSE [st EXCEPT !.k = @ + 1]

\* n turns of counts.forEach, taken half by half
RECURSIVE pickEntries(_, _, _)
pickEntries(counts, st, n) ==
    IF n <= 0 \/ ~(st.k < Len(counts)) THEN st
    ELSE IF n = 1 THEN pickEntry(counts[st.k + 1], st)
    ELSE pickEntries(counts, pickEntries(counts, st, n \div 2), n - (n \div 2))

\* counts.forEach: the most common difference, the largest one on a tie
pickCommon(counts, commonValue, commonCount) ==
    pickEntries(counts, [k |-> 0, commonValue |-> commonValue, commonCount |-> commonCount],
                Len(counts)).commonValue

commonValueOf(values) ==
    pickCommon(tallyDeltas(values, [i |-> 0, preValue |-> 0, counts |-> <<>>],
                           Len(values)).counts,
               Num(0), 0)

\* data[p .. p + Len(bytes) - 1] = bytes (p 0-based)
setBytes(data, p, bytes) ==
    IF p + Len(bytes) <= Len(data)
    THEN SubSeq(data, 1, p) \o bytes \o SubSeq(data, p + Len(bytes) + 1, Len(data))
    ELSE [k \in 1..Len(data) |->
             IF k > p /\ k <= p + Len(bytes) THEN bytes[k - p] ELSE data[k]]

\* data[Math.floor(i / 4)] |= code << ((i % 4) * 2)
setCode(data, i, code) ==
    [data EXCEPT ![(i \div 4) + 1] = BitOr(@, code * (4 ^ (i % 4)))]

\* the value of one turn of the coding loop written with a code and size
\* bytes: st = [v, data, p, preValue], v the 0-based element
coded(st, code, size, value, curValue) ==
    [v |-> st.v + 1,
     data |-> setBytes(setCode(st.data, st.v + 16, code), st.p, LeBytes(ToInt32(value), size)),
     p |-> st.p + size,
     preValue |-> curValue]

\* one turn of the coding loop
codeValue(values, commonValue, st) ==
    LET curValue == values[st.v + 1]
        value == NumSub(Num(curValue), Num(st.preValue))
    IN  IF value # commonValue
        THEN IF NumFitsInt8(value) THEN coded(st, 1, 1, value, curValue)
             ELSE IF NumFitsInt16(value) THEN coded(st, 2, 2, value, curValue)
             ELSE coded(st, 3, 4, value, curValue)
        ELSE [st EXCEPT !.v = @ + 1, !.preValue = curValue]

\* n turns of the coding loop, taken half by half
RECURSIVE codeValues(_, _, _, _)
codeValues(values, commonValue, st, n) ==
    IF n <= 0 \/ ~(st.v < Len(values)) THEN st
    ELSE IF n = 1 THEN codeValue(values, commonValue, st)
    ELSE codeValues(values, commonValue,
                    codeValues(values, commonValue, st, n \div 2), n - (n \div 2))

usdInt32Compress(values) ==
    LET valueLen == Len(values)
        worstSize == 4 + ((valueLen * 2 + 7) \div 8) + valueLen * 4
        commonValue == commonValueOf(values)
        data == setBytes(Zeros(worstSize), 0, LeBytes(ToInt32(commonValue), 4))
        end == codeValues(values, commonValue,
                          [v |-> 0, data |-> data, p |-> 4 + ((valueLen * 2 + 7) \div 8),
                           preValue |-> 0],
                          valueLen)
    IN  IF valueLen = 0 THEN <<>> ELSE SubSeq(end.data, 1, end.p)

(***************************************************************************)
(* The inputs of the compressor: buffers of up to MaxSrcLen bytes, zero     *)
(* but for two chosen places.                                              *)
(***************************************************************************)
MaxSrcLen == 32

LzBytes == {0, 1, 200}

LzInputs(maxLen) ==
    UNION { { Poke(Poke(Zeros(n), p, a), q, b) :
                p \in 1..n, q \in 1..n, a \in LzBytes, b \in LzBytes } :
            n \in 1..maxLen }

(***************************************************************************)
(* A reference LZ4 block decoder (the LZ4 block format): sequences of a    *)
(* token, the literal length, the literals and, unless the block ends      *)
(* there, a 2-byte offset and the match length, copied byte by byte from   *)
(* the output so far.                                                      *)
(***************************************************************************)
DecodeError == <<"DecodeError">>

\* the value of a run of continuation bytes starting at element ip, and the
\* element after it: <<value, next>>; next = 0 when the block ends inside
RECURSIVE readLength(_, _, _)
readLength(block, ip, acc) ==
    IF ip > Len(block) THEN <<acc, 0>>
    ELSE IF block[ip] = 255 THEN readLength(block, ip + 1, acc + 255)
    ELSE <<acc + block[ip], ip + 1>>

RECURSIVE copyMatch(_, _, _)
copyMatch(out, offset, len) ==
    IF len = 0 THEN out
    ELSE copyMatch(Append(out, out[Len(out) - offset + 1]), offset, len - 1)

RECURSIVE lz4DecodeFrom(_, _, _)
lz4DecodeFrom(block, ip, out) ==
    IF ip > Len(block) THEN DecodeError
    ELSE
    LET token == block[ip]
        lit == IF token \div 16 = 15 THEN readLength(block, ip + 1, 15)
               ELSE <<token \div 16, ip + 1>>
        litLen == lit[1]
        litStart == lit[2]
        litEnd == litStart + litLen - 1
    IN  IF litStart = 0 \/ litEnd > Len(block) THEN DecodeError
        ELSE
        LET out2 == out \o SubSeq(block, litStart, litEnd)
            mp == litEnd + 1
        IN  IF mp > Len(block) THEN out2
            ELSE IF mp + 1 > Len(block) THEN DecodeError
            ELSE
            LET offset == block[mp] + 256 * block[mp + 1]
                ml == IF token % 16 = 15 THEN readLength(block, mp + 2, 15)
                      ELSE <<token % 16, mp + 2>>
            IN  IF ml[2] = 0 \/ offset = 0 \/ offset > Len(out2) THEN DecodeError
                ELSE lz4DecodeFrom(block, ml[2],
                                   copyMatch(out2, offset, ml[1] + MIN_MATCH))

lz4Decode(block) == lz4DecodeFrom(block, 1, <<>>)

\* C1: for every non-empty input within the size limit, the reference decoder
\* applied to lz4Compress(src) without its first byte gives back src.
C1_Lz4RoundTrip ==
    lzPc = "done" =>
        /\ Len(lzOut) >= 2
        /\ lzOut[1] = 0
        /\ lz4Decode(Tail(lzOut)) = lzSrc

\* a compressed input whose block holds a match sequence followed by a
\* last literal
C1_Witness ==
    /\ lzPc = "done"
    /\ lz4Run(lzSrc).seqs # <<>>
    /\ Len(lzOut) < Len(lzSrc)
    /\ lz4Decode(Tail(lzOut)) = lzSrc

(***************************************************************************)
(* The inputs of the integer coding: up to MaxValuesLen values among the   *)
(* extremes of the 32-bit range and values whose differences need 8, 16    *)
(* and 32 bits.                                                            *)
(***************************************************************************)
MaxValuesLen == 5

INT32_MAX == 2147483647

INT32_MIN == -2147483647 - 1

IcValueSet == {INT32_MIN, -200, 0, 5, INT32_MAX}

IcInputs(maxLen) == UNION { [1..n -> IcValueSet] : n \in 0..maxLen }

\* A decoder of the coded stream, given the number of values: the 4-byte
\* common difference, the 2-bit code of each element, the payload in order;
\* the values are 32-bit sums of the differences, starting from 0.
codeOf(buf, v) == (buf[4 + (v \div 4) + 1] \div (4 ^ (v % 4))) % 4

codeSize(code) == CASE code = 0 -> 0 [] code = 1 -> 1 [] code = 2 -> 2 [] OTHER -> 4

RECURSIVE usdInt32DecodeFrom(_, _, _, _, _, _)
usdInt32DecodeFrom(buf, n, v, p, preValue, out) ==
    IF v >= n THEN out
    ELSE
    LET code == codeOf(buf, v)
        size == codeSize(code)
    IN  IF p + size > Len(buf) THEN DecodeError
        ELSE
        LET delta == IF code = 0 THEN LeSigned(SubSeq(buf, 1, 4))
                     ELSE LeSigned(SubSeq(buf, p + 1, p + size))
            curValue == ToInt32(NumAdd(Num(preValue), Num(delta)))
        IN  usdInt32DecodeFrom(buf, n, v + 1, p + size, curValue,
                               Append(out, curValue))

usdInt32Decode(buf, n) ==
    IF n = 0 THEN <<>>
    ELSE IF Len(buf) < 4 + ((n * 2 + 7) \div 8) THEN DecodeError
    ELSE usdInt32DecodeFrom(buf, n, 0, 4 + ((n * 2 + 7) \div 8), 0, <<>>)

\* C2: decoding usdInt32Compress(values), given the length, gives back values.
C2_IntCodingRoundTrip ==
    icPc = "done" => usdInt32Decode(icOut, Len(icValues)) = icValues

\* five values coded with all four codes, one difference beyond 32 bits
C2_Witness ==
    /\ icPc = "done"
    /\ Len(icValues) = 5
    /\ {codeOf(icOut, v) : v \in 0..4} = {0, 1, 2, 3}
    /\ \E v \in 1..4 :
        LET d == NumSub(Num(icValues[v + 1]), Num(icValues[v]))
        IN  d.hi >= HALF_WORD \/ d.hi < -HALF_WORD
    /\ usdInt32Decode(icOut, 5) = icValues

IcInit ==
    /\ icValues \in IcInputs(MaxValuesLen)
    /\ icOut = <<>>
    /\ icPc = "ready"

IcIdle ==
    /\ icValues = <<>>
    /\ icOut = <<>>
    /\ icPc = "idle"

UsdInt32Compress ==
    /\ icPc = "ready"
    /\ icOut' = usdInt32Compress(icValues)
    /\ icPc' = "done"
    /\ UNCHANGED icValues
    /\ UNCHANGED icOthers

(***************************************************************************)
(* ByteArray: the append-only byte sink                                    *)
(***************************************************************************)
newByteArray == [pos |-> 0, buffers |-> <<>>]

\* ByteArray.tell
tell(file) == file.pos

\* ByteArray.write
write(file, buffer) ==
    [pos |-> file.pos + Len(buffer), buffers |-> Append(file.buffers, buffer)]

\* ByteArray.getBuffers
getBuffers(file) == file.buffers

RECURSIVE writeAll(_, _)
writeAll(file, bufs) ==
    IF bufs = <<>> THEN file ELSE writeAll(write(file, Head(bufs)), Tail(bufs))

(***************************************************************************)
(* USDZ: the ZIP container of one stored file                              *)
(***************************************************************************)
\* 'tmp.usdc'
usdcName == <<116, 109, 112, 46, 117, 115, 100, 99>>

\* the padding counted from after the local header, the name and the 4 bytes
\* of the extra field's own header
LOCAL_HEADER_WITH_EXTRA_HEADER == 34

ZIP_ALIGNMENT == 64

\* the padding counted without the extra field's own header
extraSizeOf_NoExtraHeader(nameLen) == ZIP_ALIGNMENT - ((30 + nameLen) % ZIP_ALIGNMENT)

extraSizeOf(nameLen) ==
    ZIP_ALIGNMENT - ((LOCAL_HEADER_WITH_EXTRA_HEADER + nameLen) % ZIP_ALIGNMENT)

\* DataView.setUint16 / setUint32, little endian, and Uint8Array.set
setUint16(data, p, val) == setBytes(data, p, LeBytes(val, 2))

setUint32(data, p, val) == setBytes(data, p, LeBytes(val, 4))

\* the local file header with its extra field (the first block of the source)
zipPre(contentsSize) ==
    LET name == usdcName
        extraSize == extraSizeOf(Len(name))
        b0 == Zeros(LOCAL_HEADER_WITH_EXTRA_HEADER + Len(name) + extraSize)
        b1 == setBytes(b0, 0, <<80, 75, 3, 4>>)
        b2 == setUint16(b1, 4, 20)
        b3 == setUint32(b2, 18, contentsSize)
        b4 == setUint32(b3, 22, contentsSize)
        b5 == setUint16(b4, 26, Len(name))
        b6 == setUint16(b5, 28, extraSize + 4)
        b7 == setBytes(b6, 30, name)
        b8 == setUint16(b7, 30 + Len(name), 1)
    IN  setUint16(b8, 30 + Len(name) + 2, extraSize)

\* the central directory and the end record with the offset of the central
\* directory counted from the start of the payload
zipPost_OffsetFromPayload(preLength, contentsSize) ==
    LET name == usdcName
        b0 == Zeros(46 + Len(name) + 22)
        b1 == setBytes(b0, 0, <<80, 75, 1, 2>>)
        b2 == setUint16(b1, 4, 62)
        b3 == setUint16(b2, 6, 20)
        b4 == setUint32(b3, 20, contentsSize)
        b5 == setUint32(b4, 24, contentsSize)
        b6 == setUint16(b5, 28, Len(name))
        b7 == setBytes(b6, 46, name)
        e == 46 + Len(name)
        b8 == setBytes(b7, e, <<80, 75, 5, 6>>)
        b9 == setUint16(b8, e + 8, 1)
        b10 == setUint16(b9, e + 10, 1)
        b11 == setUint32(b10, e + 12, 46 + Len(name))
    IN  setUint32(b11, e + 16, contentsSize)

\* the central directory and the end of central directory (the second block)
zipPost(preLength, contentsSize) ==
    LET name == usdcName
        cdOffset == preLength + contentsSize
        cdLength == 46 + Len(name)
        b0 == Zeros(46 + Len(name) + 22)
        b1 == setBytes(b0, 0, <<80, 75, 1, 2>>)
        b2 == setUint16(b1, 4, 62)
        b3 == setUint16(b2, 6, 20)
        b4 == setUint32(b3, 20, contentsSize)
        b5 == setUint32(b4, 24, contentsSize)
        b6 == setUint16(b5, 28, Len(name))
        b7 == setBytes(b6, 46, name)
        e == 46 + Len(name)
        b8 == setBytes(b7, e, <<80, 75, 5, 6>>)
        b9 == setUint16(b8, e + 8, 1)
        b10 == setUint16(b9, e + 10, 1)
        b11 == setUint32(b10, e + 12, cdLength)
    IN  setUint32(b11, e + 16, cdOffset)

RECURSIVE totalLength(_)
totalLength(buffers) ==
    IF buffers = <<>> THEN 0
    ELSE IF Len(buffers) = 1 THEN Len(buffers[1])
    ELSE totalLength(SubSeq(buffers, 1, Len(buffers) \div 2))
         + totalLength(SubSeq(buffers, Len(buffers) \div 2 + 1, Len(buffers)))

\* usdz.set(buffer, offset) for each of [pre, ...buffers, post]: offset
\* advances by the length of each buffer, so every buffer is set where the
\* one before it ended
setAll(usdz, buffers, offset) == setBytes(usdz, offset, Flatten(buffers))

getUsdzFromUsdc(usdc) ==
    LET buffers == getBuffers(usdc)
        contentsSize == totalLength(buffers)
        pre == zipPre(contentsSize)
        post == zipPost(Len(pre), contentsSize)
    IN  setAll(Zeros(Len(pre) + contentsSize + Len(post)),
               <<pre>> \o buffers \o <<post>>, 0)

(***************************************************************************)
(* The payloads handed to the container: up to MaxWrites blocks written to  *)
(* a ByteArray, among an empty block, short blocks and a 64-byte block.    *)
(***************************************************************************)
MaxWrites == 3

ZipBlocks == {<<>>, <<80>>, <<1, 2, 3>>, [i \in 1..64 |-> 255]}

ZipInit ==
    /\ zipFile = newByteArray
    /\ zipOut = <<>>
    /\ zipPc = "writing"
    /\ zipInts = <<>>

ZipIdle ==
    /\ zipFile = newByteArray
    /\ zipOut = <<>>
    /\ zipPc = "idle"
    /\ zipInts = <<>>

ZipWrite ==
    /\ zipPc = "writing"
    /\ Len(zipFile.buffers) < MaxWrites
    /\ \E buffer \in ZipBlocks : zipFile' = write(zipFile, buffer)
    /\ UNCHANGED <<zipOut, zipPc, zipInts>>
    /\ UNCHANGED zipOthers

GetUsdz ==
    /\ zipPc = "writing"
    /\ zipOut' = getUsdzFromUsdc(zipFile)
    /\ zipPc' = "done"
    /\ UNCHANGED <<zipFile, zipInts>>
    /\ UNCHANGED zipOthers

\* the fields of the archive, read back from its bytes
zipUint16(buf, p) == LeUnsigned(SubSeq(buf, p + 1, p + 2))

zipUint32(buf, p) == LeUnsigned(SubSeq(buf, p + 1, p + 4))

zipNameLength == zipUint16(zipOut, 26)

zipExtraLength == zipUint16(zipOut, 28)

zipPayloadOffset == 30 + zipNameLength + zipExtraLength

\* C3: the payload of tmp.usdc starts at a file offset divisible by 64, which
\* is 30 + the recorded name length + the recorded extra length.
C3_PayloadAligned ==
    zipPc = "done" =>
        /\ zipPayloadOffset % 64 = 0
        /\ SubSeq(zipOut, 31, 30 + zipNameLength) = usdcName
        /\ zipUint16(zipOut, 30 + zipNameLength) = 1
        /\ zipUint16(zipOut, 30 + zipNameLength + 2) + 4 = zipExtraLength
        /\ SubSeq(zipOut, zipPayloadOffset + 1, zipPayloadOffset + zipFile.pos)
                = Flatten(zipFile.buffers)
        /\ SubSeq(zipOut, zipPayloadOffset + zipFile.pos + 1,
                  zipPayloadOffset + zipFile.pos + 4) = <<80, 75, 1, 2>>

\* an archive of a payload of several blocks, and an archive of an empty one
C3_Witness ==
    /\ zipPc = "done"
    /\ Len(zipFile.buffers) = MaxWrites
    /\ zipFile.pos > 64
    /\ zipPayloadOffset = 64
    /\ zipOut[zipPayloadOffset + 1] = 80

(***************************************************************************)
(* JavaScript numbers and JSON text.  A number is an integer, a quotient   *)
(* of integers (a color channel over 255) or plus or minus                *)
(* Number.MAX_VALUE; text is the sequence of its character codes.          *)
(***************************************************************************)
jsInt(v) == [k |-> "int", v |-> v]

MAX_VALUE == [k |-> "max", sign |-> 1]

NEG_MAX_VALUE == [k |-> "max", sign |-> -1]

\* Math.min and Math.max of a point's coordinate (an integer) and a bound
mathMin(point, bound) ==
    IF bound.k = "max" THEN (IF bound.sign = 1 THEN jsInt(point) ELSE bound)
    ELSE jsInt(Min(point, bound.v))

mathMax(point, bound) ==
    IF bound.k = "max" THEN (IF bound.sign = -1 THEN jsInt(point) ELSE bound)
    ELSE jsInt(Max(point, bound.v))

\* the character codes of the strings of the model
Chars(s) ==
    CASE s = "asset" -> <<97, 115, 115, 101, 116>>
      [] s = "version" -> <<118, 101, 114, 115, 105, 111, 110>>
      [] s = "2.0" -> <<50, 46, 48>>
      [] s = "scenes" -> <<115, 99, 101, 110, 101, 115>>
      [] s = "nodes" -> <<110, 111, 100, 101, 115>>
      [] s = "mesh" -> <<109, 101, 115, 104>>
      [] s = "meshes" -> <<109, 101, 115, 104, 101, 115>>
      [] s = "primitives" -> <<112, 114, 105, 109, 105, 116, 105, 118, 101, 115>>
      [] s = "buffers" -> <<98, 117, 102, 102, 101, 114, 115>>
      [] s = "byteLength" -> <<98, 121, 116, 101, 76, 101, 110, 103, 116, 104>>
      [] s = "bufferViews" -> <<98, 117, 102, 102, 101, 114, 86, 105, 101, 119, 115>>
      [] s = "accessors" -> <<97, 99, 99, 101, 115, 115, 111, 114, 115>>
      [] s = "materials" -> <<109, 97, 116, 101, 114, 105, 97, 108, 115>>
      [] s = "attributes" -> <<97, 116, 116, 114, 105, 98, 117, 116, 101, 115>>
      [] s = "POSITION" -> <<80, 79, 83, 73, 84, 73, 79, 78>>
      [] s = "NORMAL" -> <<78, 79, 82, 77, 65, 76>>
      [] s = "indices" -> <<105, 110, 100, 105, 99, 101, 115>>
      [] s = "material" -> <<109, 97, 116, 101, 114, 105, 97, 108>>
      [] s = "buffer" -> <<98, 117, 102, 102, 101, 114>>
      [] s = "byteOffset" -> <<98, 121, 116, 101, 79, 102, 102, 115, 101, 116>>
      [] s = "target" -> <<116, 97, 114, 103, 101, 116>>
      [] s = "bufferView" -> <<98, 117, 102, 102, 101, 114, 86, 105, 101, 119>>
      [] s = "componentType" -> <<99, 111, 109, 112, 111, 110, 101, 110, 116, 84, 121, 112, 101>>
      [] s = "count" -> <<99, 111, 117, 110, 116>>
      [] s = "type" -> <<116, 121, 112, 101>>
      [] s = "SCALAR" -> <<83, 67, 65, 76, 65, 82>>
      [] s = "VEC3" -> <<86, 69, 67, 51>>
      [] s = "max" -> <<109, 97, 120>>
      [] s = "min" -> <<109, 105, 110>>
      [] s = "pbrMetallicRoughness" -> <<112, 98, 114, 77, 101, 116, 97, 108, 108, 105, 99, 82, 111, 117, 103, 104, 110, 101, 115, 115>>
      [] s = "baseColorFactor" -> <<98, 97, 115, 101, 67, 111, 108, 111, 114, 70, 97, 99, 116, 111, 114>>
      [] s = "metallicFactor" -> <<109, 101, 116, 97, 108, 108, 105, 99, 70, 97, 99, 116, 111, 114>>
      [] s = "roughnessFactor" -> <<114, 111, 117, 103, 104, 110, 101, 115, 115, 70, 97, 99, 116, 111, 114>>
      [] s = "0" -> <<48>>
      [] s = "1" -> <<49>>
      [] s = "0.2" -> <<48, 46, 50>>
      [] s = "0.5" -> <<48, 46, 53>>
      [] s = "0.996078431372549" -> <<48, 46, 57, 57, 54, 48, 55, 56, 52, 51, 49, 51, 55, 50, 53, 52, 57>>
      [] s = "0.9921568627450981" -> <<48, 46, 57, 57, 50, 49, 53, 54, 56, 54, 50, 55, 52, 53, 48, 57, 56, 49>>
      [] s = "1.7976931348623157e+308" -> <<49, 46, 55, 57, 55, 54, 57, 51, 49, 51, 52, 56, 54, 50, 51, 49, 53, 55, 101, 43, 51, 48, 56>>
      [] s = "" -> <<>>
      [] s = "typeName" -> <<116, 121, 112, 101, 78, 97, 109, 101>>
      [] s = "token" -> <<116, 111, 107, 101, 110>>
      [] s = "variability" -> <<118, 97, 114, 105, 97, 98, 105, 108, 105, 116, 121>>
      [] s = "custom" -> <<99, 117, 115, 116, 111, 109>>
      [] s = "connectionPaths" -> <<99, 111, 110, 110, 101, 99, 116, 105, 111, 110, 80, 97, 116, 104, 115>>
      [] s = "connectionChildren" -> <<99, 111, 110, 110, 101, 99, 116, 105, 111, 110, 67, 104, 105, 108, 100, 114, 101, 110>>
      [] s = "targetPaths" -> <<116, 97, 114, 103, 101, 116, 80, 97, 116, 104, 115>>
      [] s = "targetChildren" -> <<116, 97, 114, 103, 101, 116, 67, 104, 105, 108, 100, 114, 101, 110>>
      [] s = "specifier" -> <<115, 112, 101, 99, 105, 102, 105, 101, 114>>
      [] s = "properties" -> <<112, 114, 111, 112, 101, 114, 116, 105, 101, 115>>
      [] s = "primChildren" -> <<112, 114, 105, 109, 67, 104, 105, 108, 100, 114, 101, 110>>
      [] s = "default" -> <<100, 101, 102, 97, 117, 108, 116>>
      [] s = "timeSamples" -> <<116, 105, 109, 101, 83, 97, 109, 112, 108, 101, 115>>
      [] s = "inheritPaths" -> <<105, 110, 104, 101, 114, 105, 116, 80, 97, 116, 104, 115>>
      [] s = "kind" -> <<107, 105, 110, 100>>
      [] s = "component" -> <<99, 111, 109, 112, 111, 110, 101, 110, 116>>
      [] s = "ar" -> <<97, 114>>
      [] s = "Xform" -> <<88, 102, 111, 114, 109>>
      [] s = "Materials" -> <<77, 97, 116, 101, 114, 105, 97, 108, 115>>
      [] s = "Scope" -> <<83, 99, 111, 112, 101>>
      [] s = "Material" -> <<77, 97, 116, 101, 114, 105, 97, 108>>
      [] s = "Mesh" -> <<77, 101, 115, 104>>
      [] s = "assetInfo" -> <<97, 115, 115, 101, 116, 73, 110, 102, 111>>
      [] s = "name" -> <<110, 97, 109, 101>>
      [] s = "surfaceShader" -> <<115, 117, 114, 102, 97, 99, 101, 83, 104, 97, 100, 101, 114>>
      [] s = "Shader" -> <<83, 104, 97, 100, 101, 114>>
      [] s = "info:id" -> <<105, 110, 102, 111, 58, 105, 100>>
      [] s = "UsdPreviewSurface" -> <<85, 115, 100, 80, 114, 101, 118, 105, 101, 119, 83, 117, 114, 102, 97, 99, 101>>
      [] s = "inputs:diffuseColor" -> <<105, 110, 112, 117, 116, 115, 58, 100, 105, 102, 102, 117, 115, 101, 67, 111, 108, 111, 114>>
      [] s = "color3f" -> <<99, 111, 108, 111, 114, 51, 102>>
      [] s = "inputs:roughness" -> <<105, 110, 112, 117, 116, 115, 58, 114, 111, 117, 103, 104, 110, 101, 115, 115>>
      [] s = "float" -> <<102, 108, 111, 97, 116>>
      [] s = "outputs:surface" -> <<111, 117, 116, 112, 117, 116, 115, 58, 115, 117, 114, 102, 97, 99, 101>>
      [] s = "rel" -> <<114, 101, 108>>
      [] s = "material:binding" -> <<109, 97, 116, 101, 114, 105, 97, 108, 58, 98, 105, 110, 100, 105, 110, 103>>
      [] s = "doubleSided" -> <<100, 111, 117, 98, 108, 101, 83, 105, 100, 101, 100>>
      [] s = "bool" -> <<98, 111, 111, 108>>
      [] s = "faceVertexCounts" -> <<102, 97, 99, 101, 86, 101, 114, 116, 101, 120, 67, 111, 117, 110, 116, 115>>
      [] s = "faceVertexIndices" -> <<102, 97, 99, 101, 86, 101, 114, 116, 101, 120, 73, 110, 100, 105, 99, 101, 115>>
      [] s = "int[]" -> <<105, 110, 116, 91, 93>>
      [] s = "points" -> <<112, 111, 105, 110, 116, 115>>
      [] s = "point3f[]" -> <<112, 111, 105, 110, 116, 51, 102, 91, 93>>
      [] s = "primvars:normals" -> <<112, 114, 105, 109, 118, 97, 114, 115, 58, 110, 111, 114, 109, 97, 108, 115>>
      [] s = "normal3f[]" -> <<110, 111, 114, 109, 97, 108, 51, 102, 91, 93>>
      [] s = "interpolation" -> <<105, 110, 116, 101, 114, 112, 111, 108, 97, 116, 105, 111, 110>>
      [] s = "vertex" -> <<118, 101, 114, 116, 101, 120>>
      [] s = "subdivisionScheme" -> <<115, 117, 98, 100, 105, 118, 105, 115, 105, 111, 110, 83, 99, 104, 101, 109, 101>>
      [] s = "none" -> <<110, 111, 110, 101>>
      [] s = "k0" -> <<107, 48>>
      [] s = "k1" -> <<107, 49>>
      [] s = "k2" -> <<107, 50>>
      [] s = "m0" -> <<109, 48>>
      [] s = "m1" -> <<109, 49>>
      [] s = "m2" -> <<109, 50>>
      [] s = "a" -> <<97>>
      [] s = "b" -> <<98>>
      [] s = "f" -> <<102>>
      [] s = "g" -> <<103>>
      [] s = "TOKENS" -> <<84, 79, 75, 69, 78, 83>>
      [] s = "STRINGS" -> <<83, 84, 82, 73, 78, 71, 83>>
      [] s = "FIELDS" -> <<70, 73, 69, 76, 68, 83>>
      [] s = "FIELDSETS" -> <<70, 73, 69, 76, 68, 83, 69, 84, 83>>
      [] s = "PATHS" -> <<80, 65, 84, 72, 83>>
      [] s = "SPECS" -> <<83, 80, 69, 67, 83>>
      [] s = "references" -> <<114, 101, 102, 101, 114, 101, 110, 99, 101, 115>>

RECURSIVE digitsOf(_)
digitsOf(n) ==
    IF n < 10 THEN <<48 + n>> ELSE Append(digitsOf(n \div 10), 48 + (n % 10))

\* Number.prototype.toString of the numbers of the model
numberToString(x) ==
    CASE x.k = "int" -> IF x.v < 0 THEN <<45>> \o digitsOf(0 - x.v) ELSE digitsOf(x.v)
      [] x.k = "max" -> (IF x.sign < 0 THEN <<45>> ELSE <<>>) \o Chars("1.7976931348623157e+308")
      [] x.k = "frac" ->
            CASE x.num = 0 -> Chars("0")
              [] x.num = x.den -> Chars("1")
              [] x.num = 51 /\ x.den = 255 -> Chars("0.2")
              [] x.num = 1 /\ x.den = 2 -> Chars("0.5")
              [] x.num = 254 /\ x.den = 255 -> Chars("0.996078431372549")
              [] x.num = 253 /\ x.den = 255 -> Chars("0.9921568627450981")

\* JSON values: [t |-> "n", v |-> number], [t |-> "s", v |-> string],
\* [t |-> "a", v |-> values], [t |-> "o", v |-> <<key, value>> pairs]
jNum(x) == [t |-> "n", v |-> x]

jInt(n) == [t |-> "n", v |-> jsInt(n)]

jStr(s) == [t |-> "s", v |-> s]

jArr(items) == [t |-> "a", v |-> items]

jObj(pairs) == [t |-> "o", v |-> pairs]

quoted(s) == <<34>> \o Chars(s) \o <<34>>

\* JSON.stringify
RECURSIVE stringify(_)
RECURSIVE stringifyItems(_, _)
stringifyItems(items, isObject) ==
    IF items = <<>> THEN <<>>
    ELSE (IF isObject
          THEN quoted(Head(items)[1]) \o <<58>> \o stringify(Head(items)[2])
          ELSE stringify(Head(items)))
         \o (IF Len(items) > 1 THEN <<44>> ELSE <<>>)
         \o stringifyItems(Tail(items), isObject)

stringify(value) ==
    CASE value.t = "n" -> numberToString(value.v)
      [] value.t = "s" -> quoted(value.v)
      [] value.t = "a" -> <<91>> \o stringifyItems(value.v, FALSE) \o <<93>>
      [] value.t = "o" -> <<123>> \o stringifyItems(value.v, TRUE) \o <<125>>

\* the value of a key of a JSON object
jGet(obj, key) ==
    LET i == CHOOSE i \in 1..Len(obj.v) : obj.v[i][1] = key IN obj.v[i][2]

(***************************************************************************)
(* Mesh sets: the Map<Color, Mesh> the exporters take, as the sequence of   *)
(* its entries in insertion order.  A mesh has nv positions, its normals   *)
(* and nf faces; vertex i is at (i, -i, 10 i).  A mesh is built well formed  *)
(* or with one of the two defects: a face index equal to the number of     *)
(* positions, or one normal more than positions.                           *)
(***************************************************************************)
MaxColors == 2

MaxVerts == 3

MaxFaces == 1

\* the colors of the entries, in order: 0xFF0000, 0x0033FF, 0x33FF33, ...,
\* 0x33FE33, ...: distinct keys up to the ninth entry
colorOf(k) ==
    CASE k % 3 = 1 -> [r |-> 255, g |-> 0, b |-> 0]
      [] k % 3 = 2 -> [r |-> 0, g |-> 51, b |-> 255]
      [] OTHER -> [r |-> 51, g |-> 255 - ((k - 1) \div 3), b |-> 51]

positionOf(i) == <<i, 0 - i, 10 * i>>

normalOf(i) == <<0, 0, 1>>

\* face f of a mesh of nv positions: the indices f, f + 1, f + 2 modulo nv
faceIndices(nv, nf) == [j \in 1..(3 * nf) |-> (((j - 1) \div 3) + ((j - 1) % 3)) % nv]

makeMesh(nv, nf, defect) ==
    [positions |-> [i \in 1..nv |-> positionOf(i - 1)],
     normals |-> [i \in 1..(IF defect = "normals" THEN nv + 1 ELSE nv) |-> normalOf(i - 1)],
     faces |-> IF defect = "face" /\ nf > 0
               THEN [faceIndices(nv, nf) EXCEPT ![3 * nf] = nv]
               ELSE faceIndices(nv, nf)]

WellFormedMeshes(maxVerts, maxFaces) ==
    { makeMesh(0, 0, "none") }
        \cup { makeMesh(nv, nf, "none") : nv \in 1..maxVerts, nf \in 0..maxFaces }

DefectiveMeshes(maxVerts, maxFaces) ==
    { makeMesh(nv, nf, "face") : nv \in 1..maxVerts, nf \in 1..maxFaces }
        \cup { makeMesh(nv, nf, "normals") : nv \in 1..maxVerts, nf \in 0..maxFaces }

\* the mesh invariants: as many normals as positions, every face index a
\* position, the faces in triples
meshIsWellFormed(mesh) ==
    /\ Len(mesh.normals) = Len(mesh.positions)
    /\ \A j \in 1..Len(mesh.faces) :
        mesh.faces[j] >= 0 /\ mesh.faces[j] < Len(mesh.positions)
    /\ Len(mesh.faces) % 3 = 0

meshSetIsWellFormed(meshes) ==
    \A k \in 1..Len(meshes) : meshIsWellFormed(meshes[k].mesh)

\* the mesh sets of n entries: all well formed, or one entry defective
MeshSetsOfSize(n, maxVerts, maxFaces) ==
    LET good == [1..n -> WellFormedMeshes(maxVerts, maxFaces)]
        entries(ms) == [k \in 1..n |-> [color |-> colorOf(k), mesh |-> ms[k]]]
    IN  { entries(ms) : ms \in good }
            \cup { entries([ms EXCEPT ![k] = d]) :
                    ms \in good, k \in 1..n, d \in DefectiveMeshes(maxVerts, maxFaces) }

MeshSets(maxColors, maxVerts, maxFaces) ==
    UNION { MeshSetsOfSize(n, maxVerts, maxFaces) : n \in 0..maxColors }

(***************************************************************************)
(* OBJ/MTL writer.  A line is kept as the record of its fields; the text of *)
(* an f line, ' a//a b//b c//c', is its three points.                       *)
(***************************************************************************)
\* Color.toRgbNormalized: the channels over 255
toRgbNormalized(color) ==
    <<[num |-> color.r, den |-> 255], [num |-> color.g, den |-> 255],
      [num |-> color.b, den |-> 255]>>

\* pointOffset left as it is after a mesh
nextPointOffset_NotAccumulated(pointOffset, positions) == pointOffset

\* pointOffset += positions.length
nextPointOffset(pointOffset, positions) == pointOffset + Len(positions)

\* the f lines of a mesh: 'f' and, for j = 0..2, point = pointOffset + faces[i + j]
faceLines(faces, pointOffset) ==
    [f \in 1..((Len(faces) + 2) \div 3) |->
        [op |-> "f",
         points |-> [j \in 1..3 |->
            IF 3 * (f - 1) + j <= Len(faces)
            THEN pointOffset + faces[3 * (f - 1) + j]
            ELSE "NaN"]]]

\* the body of meshByColor.forEach in exportObj
objMeshLines(mesh, refId, pointOffset) ==
    <<[op |-> "g", name |-> <<"m", refId>>], [op |-> "usemtl", name |-> <<"k", refId>>]>>
        \o [i \in 1..Len(mesh.positions) |-> [op |-> "v", vec |-> mesh.positions[i]]]
        \o [i \in 1..Len(mesh.normals) |-> [op |-> "vn", vec |-> mesh.normals[i]]]
        \o faceLines(mesh.faces, pointOffset)

mtlBlock(color, refId) ==
    [op |-> "newmtl", name |-> <<"k", refId>>, Kd |-> toRgbNormalized(color)]

RECURSIVE exportObjLoop(_, _, _, _, _)
exportObjLoop(meshes, refId, pointOffset, objLines, mtlLines) ==
    IF meshes = <<>> THEN [obj |-> objLines, mtl |-> mtlLines]
    ELSE LET e == Head(meshes)
         IN  exportObjLoop(Tail(meshes), refId + 1,
                           nextPointOffset(pointOffset, e.mesh.positions),
                           objLines \o objMeshLines(e.mesh, refId, pointOffset),
                           Append(mtlLines, mtlBlock(e.color, refId)))

exportObj(meshes, outName) ==
    exportObjLoop(meshes, 0, 1, <<[op |-> "mtllib", name |-> <<outName, ".mtl">>]>>, <<>>)

(***************************************************************************)
(* exportGlb: one glTF primitive, three buffer views, three accessors and  *)
(* one material per entry of the mesh set, the manifest as JSON text, and  *)
(* the GLB container of a 12-byte header, a JSON chunk and a BIN chunk.    *)
(***************************************************************************)
\* the IEEE 754 single of an integer of magnitude below 2^24, little-endian
float32Bytes(v) ==
    IF v = 0 THEN <<0, 0, 0, 0>>
    ELSE LET a == IF v < 0 THEN 0 - v ELSE v
             e == CHOOSE e \in 0..23 : 2 ^ e <= a /\ a < 2 ^ (e + 1)
             mantissa == (a - 2 ^ e) * 2 ^ (23 - e)
             biased == e + 127
         IN  <<mantissa % 256, (mantissa \div 256) % 256,
               (biased % 2) * 128 + (mantissa \div 65536),
               (IF v < 0 THEN 128 ELSE 0) + (biased \div 2)>>

\* new Uint32Array(values).buffer
uint32ArrayBuffer(values) == Flatten([i \in 1..Len(values) |-> LeBytes(values[i], 4)])

\* flattenVec3s(vs).buffer
flattenVec3s(vs) ==
    Flatten([i \in 1..Len(vs) |->
                float32Bytes(vs[i][1]) \o float32Bytes(vs[i][2]) \o float32Bytes(vs[i][3])])

RECURSIVE computeBoundingLoop(_, _, _)
computeBoundingLoop(points, min, max) ==
    IF points = <<>> THEN [min |-> min, max |-> max]
    ELSE LET point == Head(points)
         IN  computeBoundingLoop(Tail(points),
                 [i \in 1..3 |-> mathMin(point[i], min[i])],
                 [i \in 1..3 |-> mathMax(point[i], max[i])])

computeBounding(points) ==
    computeBoundingLoop(points, <<MAX_VALUE, MAX_VALUE, MAX_VALUE>>,
                        <<NEG_MAX_VALUE, NEG_MAX_VALUE, NEG_MAX_VALUE>>)

\* a Vec3 of numbers as a JSON array
jVec3(v) == jArr([i \in 1..3 |-> jNum(v[i])])

jsFrac(c) == [k |-> "frac", num |-> c.num, den |-> c.den]

bufferViewOf(byteOffset, byteLength, target) ==
    jObj(<<<<"buffer", jInt(0)>>, <<"byteOffset", jInt(byteOffset)>>,
           <<"byteLength", jInt(byteLength)>>, <<"target", jInt(target)>>>>)

\* the body of meshByColor.forEach with the accessors numbered by the
\* materials pushed so far
glbMesh_OffsetByMaterials(st, mesh, color) ==
    LET accessorOffset == Len(st.materials)
        faceBuffer == uint32ArrayBuffer(mesh.faces)
        positionBuffer == flattenVec3s(mesh.positions)
        normalBuffer == flattenVec3s(mesh.normals)
        offset1 == st.byteOffset + Len(faceBuffer)
        offset2 == offset1 + Len(positionBuffer)
    IN  [primitives |-> Append(st.primitives,
            jObj(<<<<"attributes", jObj(<<<<"POSITION", jInt(accessorOffset + 1)>>,
                                         <<"NORMAL", jInt(accessorOffset + 2)>>>>)>>,
                   <<"indices", jInt(accessorOffset)>>,
                   <<"material", jInt(Len(st.materials))>>>>)),
         bufferViews |-> st.bufferViews \o
            <<bufferViewOf(st.byteOffset, Len(faceBuffer), 34963),
              bufferViewOf(offset1, Len(positionBuffer), 34962),
              bufferViewOf(offset2, Len(normalBuffer), 34962)>>,
         accessors |-> st.accessors \o
            <<jObj(<<<<"bufferView", jInt(accessorOffset)>>, <<"byteOffset", jInt(0)>>,
                     <<"componentType", jInt(5125)>>, <<"count", jInt(Len(mesh.faces))>>,
                     <<"type", jStr("SCALAR")>>>>),
              jObj(<<<<"bufferView", jInt(accessorOffset + 1)>>, <<"byteOffset", jInt(0)>>,
                     <<"componentType", jInt(5126)>>, <<"count", jInt(Len(mesh.positions))>>,
                     <<"type", jStr("VEC3")>>>>),
              jObj(<<<<"bufferView", jInt(accessorOffset + 2)>>, <<"byteOffset", jInt(0)>>,
                     <<"componentType", jInt(5126)>>, <<"count", jInt(Len(mesh.normals))>>,
                     <<"type", jStr("VEC3")>>>>)>>,
         binaryBuffer |-> st.binaryBuffer \o <<faceBuffer, positionBuffer, normalBuffer>>,
         materials |-> Append(st.materials, jObj(<<>>)),
         byteOffset |-> offset2 + Len(normalBuffer)]

\* the body of meshByColor.forEach in exportGlb
glbMesh(st, mesh, color) ==
    LET accessorOffset == Len(st.accessors)
        faceBuffer == uint32ArrayBuffer(mesh.faces)
        positionBuffer == flattenVec3s(mesh.positions)
        normalBuffer == flattenVec3s(mesh.normals)
        materialOffset == Len(st.materials)
        bounding == computeBounding(mesh.positions)
        rgb == toRgbNormalized(color)
        offset1 == st.byteOffset + Len(faceBuffer)
        offset2 == offset1 + Len(positionBuffer)
    IN  [primitives |-> Append(st.primitives,
            jObj(<<<<"attributes", jObj(<<<<"POSITION", jInt(accessorOffset + 1)>>,
                                         <<"NORMAL", jInt(accessorOffset + 2)>>>>)>>,
                   <<"indices", jInt(accessorOffset)>>,
                   <<"material", jInt(materialOffset)>>>>)),
         bufferViews |-> st.bufferViews \o
            <<bufferViewOf(st.byteOffset, Len(faceBuffer), 34963),
              bufferViewOf(offset1, Len(positionBuffer), 34962),
              bufferViewOf(offset2, Len(normalBuffer), 34962)>>,
         accessors |-> st.accessors \o
            <<jObj(<<<<"bufferView", jInt(accessorOffset)>>, <<"byteOffset", jInt(0)>>,
                     <<"componentType", jInt(5125)>>, <<"count", jInt(Len(mesh.faces))>>,
                     <<"type", jStr("SCALAR")>>>>),
              jObj(<<<<"bufferView", jInt(accessorOffset + 1)>>, <<"byteOffset", jInt(0)>>,
                     <<"componentType", jInt(5126)>>, <<"count", jInt(Len(mesh.positions))>>,
                     <<"type", jStr("VEC3")>>, <<"max", jVec3(bounding.max)>>,
                     <<"min", jVec3(bounding.min)>>>>),
              jObj(<<<<"bufferView", jInt(accessorOffset + 2)>>, <<"byteOffset", jInt(0)>>,
                     <<"componentType", jInt(5126)>>, <<"count", jInt(Len(mesh.normals))>>,
                     <<"type", jStr("VEC3")>>>>)>>,
         binaryBuffer |-> st.binaryBuffer \o <<faceBuffer, positionBuffer, normalBuffer>>,
         materials |-> Append(st.materials,
            jObj(<<<<"pbrMetallicRoughness",
                     jObj(<<<<"baseColorFactor",
                              jArr(<<jNum(jsFrac(rgb[1])), jNum(jsFrac(rgb[2])),
                                     jNum(jsFrac(rgb[3])), jInt(1)>>)>>,
                            <<"metallicFactor", jInt(0)>>,
                            <<"roughnessFactor", jNum([k |-> "frac", num |-> 1, den |-> 2])>>>>)>>>>)),
         byteOffset |-> offset2 + Len(normalBuffer)]

RECURSIVE glbLoop(_, _)
glbLoop(meshes, st) ==
    IF meshes = <<>> THEN st
    ELSE glbLoop(Tail(meshes), glbMesh(st, Head(meshes).mesh, Head(meshes).color))

\* the manifest object
gltfOf(st) ==
    jObj(<<<<"asset", jObj(<<<<"version", jStr("2.0")>>>>)>>,
           <<"scenes", jArr(<<jObj(<<<<"nodes", jArr(<<jInt(0)>>)>>>>)>>)>>,
           <<"nodes", jArr(<<jObj(<<<<"mesh", jInt(0)>>>>)>>)>>,
           <<"meshes", jArr(<<jObj(<<<<"primitives", jArr(st.primitives)>>>>)>>)>>,
           <<"buffers", jArr(<<jObj(<<<<"byteLength", jInt(st.byteOffset)>>>>)>>)>>,
           <<"bufferViews", jArr(st.bufferViews)>>,
           <<"accessors", jArr(st.accessors)>>,
           <<"materials", jArr(st.materials)>>>>)

\* the pad of createChunk taken as the remainder itself
padOf_Remainder(byteLength) == byteLength % 4

\* the pad of createChunk: 4 - (byteLength % 4) when byteLength % 4 !== 0
padOf(byteLength) == IF byteLength % 4 # 0 THEN 4 - (byteLength % 4) ELSE 0

createChunk(chunkType, buf, byteLength, padChar) ==
    LET pad == padOf(byteLength)
        padded == byteLength + pad
        tmp == <<uint32ArrayBuffer(<<padded, chunkType>>)>> \o buf
    IN  [buffers |-> IF pad # 0 THEN Append(tmp, [i \in 1..pad |-> padChar]) ELSE tmp,
         length |-> padded + 8]

JSON_CHUNK == 1313821514

BIN_CHUNK == 5130562

GLB_MAGIC == 1179937895

GLB_VERSION == 2

\* the manifest, its text, the binary buffers and the container bytes
exportGlb(meshes) ==
    LET st == glbLoop(meshes, [primitives |-> <<>>, accessors |-> <<>>, bufferViews |-> <<>>,
                               binaryBuffer |-> <<>>, materials |-> <<>>, byteOffset |-> 0])
        gltf == gltfOf(st)
        jsonBuffer == stringify(gltf)
        jsonChunk == createChunk(JSON_CHUNK, <<jsonBuffer>>, Len(jsonBuffer), 32)
        binaryChunk == createChunk(BIN_CHUNK, st.binaryBuffer, st.byteOffset, 0)
        glbBufferLength == 12 + jsonChunk.length + binaryChunk.length
        glbBuffer == <<uint32ArrayBuffer(<<GLB_MAGIC, GLB_VERSION, glbBufferLength>>)>>
                        \o jsonChunk.buffers \o binaryChunk.buffers
    IN  [gltf |-> gltf, json |-> jsonBuffer, bin |-> Flatten(st.binaryBuffer),
         glb |-> setAll(Zeros(glbBufferLength), glbBuffer, 0)]

MeshInit ==
    /\ renderables = <<>>
    /\ meshByColor \in MeshSets(MaxColors, MaxVerts, MaxFaces)
    /\ objOut = <<>>
    /\ glbOut = <<>>
    /\ meshPc = "ready"

MeshIdle ==
    /\ renderables = <<>>
    /\ meshByColor = <<>>
    /\ objOut = <<>>
    /\ glbOut = <<>>
    /\ meshPc = "idle"

ExportObj ==
    /\ meshPc = "ready"
    /\ objOut' = exportObj(meshByColor, "out")
    /\ meshPc' = "obj"
    /\ UNCHANGED <<renderables, meshByColor, glbOut>>
    /\ UNCHANGED meshOthers

ExportGlb ==
    /\ meshPc = "ready"
    /\ glbOut' = exportGlb(meshByColor)
    /\ meshPc' = "glb"
    /\ UNCHANGED <<renderables, meshByColor, objOut>>
    /\ UNCHANGED meshOthers

\* the lines of objOut.obj before line L with the given op
objLinesBefore(L, op) == {i \in 1..(L - 1) : objOut.obj[i].op = op}

\* the number of positions of the entries before entry k
RECURSIVE positionsBefore(_, _)
positionsBefore(meshes, k) ==
    IF k <= 1 THEN 0
    ELSE Len(meshes[k - 1].mesh.positions) + positionsBefore(meshes, k - 1)

\* C5: for a well-formed mesh set, every point of an f line of the k-th
\* color lies in (P, P + len(positions_k)], P the positions of the colors
\* before it, and is at most the number of v lines and of vn lines so far.
C5_ObjFaceIndicesInRange ==
    (meshPc = "obj" /\ meshSetIsWellFormed(meshByColor)) =>
        \A L \in 1..Len(objOut.obj) :
            objOut.obj[L].op = "f" =>
                LET k == Cardinality(objLinesBefore(L, "g"))
                    P == positionsBefore(meshByColor, k)
                IN  \A j \in 1..3 :
                        /\ objOut.obj[L].points[j] > P
                        /\ objOut.obj[L].points[j] <= P + Len(meshByColor[k].mesh.positions)
                        /\ objOut.obj[L].points[j] <= Cardinality(objLinesBefore(L, "v"))
                        /\ objOut.obj[L].points[j] <= Cardinality(objLinesBefore(L, "vn"))

\* two well-formed colors, each with a face, the second one's face naming
\* its last position
C5_Witness ==
    /\ meshPc = "obj"
    /\ meshSetIsWellFormed(meshByColor)
    /\ Len(meshByColor) = 2
    /\ \A k \in 1..2 : Len(meshByColor[k].mesh.faces) = 3
    /\ Len(meshByColor[1].mesh.positions) = 2
    /\ \E L \in 1..Len(objOut.obj) :
        /\ objOut.obj[L].op = "f"
        /\ Cardinality(objLinesBefore(L, "g")) = 2
        /\ \E j \in 1..3 : objOut.obj[L].points[j] = 2 + Len(meshByColor[2].mesh.positions)

(***************************************************************************)
(* The GLB container read back from the bytes exportGlb returns.           *)
(***************************************************************************)
glbBytes == glbOut.glb

glbUint32(p) == LeUnsigned(SubSeq(glbBytes, p + 1, p + 4))

glbJsonLength == glbUint32(12)

glbBinStart == 20 + glbJsonLength

glbBinLength == glbUint32(glbBinStart)

\* C4: the bytes exportGlb returns start with the magic 0x46546C67 and the
\* version 2; the total length of the header is the length of the bytes and
\* is 12 + (8 + JSON chunk length) + (8 + BIN chunk length); both chunk
\* lengths are multiples of 4; the JSON chunk is the manifest text followed
\* by fewer than four bytes, all 0x20; the BIN chunk is the binary buffers
\* followed by fewer than four bytes, all 0x00.
C4_GlbContainer ==
    meshPc = "glb" =>
        /\ glbUint32(0) = GLB_MAGIC
        /\ glbUint32(4) = GLB_VERSION
        /\ glbUint32(8) = Len(glbBytes)
        /\ glbUint32(16) = JSON_CHUNK
        /\ glbUint32(glbBinStart + 4) = BIN_CHUNK
        /\ Len(glbBytes) = 12 + (8 + glbJsonLength) + (8 + glbBinLength)
        /\ glbJsonLength % 4 = 0
        /\ glbBinLength % 4 = 0
        /\ glbJsonLength - Len(glbOut.json) \in 0..3
        /\ SubSeq(glbBytes, 21, 20 + Len(glbOut.json)) = glbOut.json
        /\ \A i \in (21 + Len(glbOut.json))..(20 + glbJsonLength) : glbBytes[i] = 32
        /\ glbBinLength - Len(glbOut.bin) \in 0..3
        /\ SubSeq(glbBytes, glbBinStart + 9, glbBinStart + 8 + Len(glbOut.bin)) = glbOut.bin
        /\ \A i \in (glbBinStart + 9 + Len(glbOut.bin))..(glbBinStart + 8 + glbBinLength) :
              glbBytes[i] = 0

\* a container of two meshes whose manifest text needed padding
C4_Witness ==
    /\ meshPc = "glb"
    /\ Len(meshByColor) = 2
    /\ Len(glbOut.json) % 4 # 0
    /\ Len(glbOut.bin) > 0

(***************************************************************************)
(* The byte writers of the Crate file                                      *)
(***************************************************************************)
\* writeInt: little-endian, size 1, 4, 6 or 8; a negative signed value of
\* size 8 gets setInt32(1, -1) over its bytes 1..4
writeInt(file, value, size, signed) ==
    LET bytes ==
            CASE size = 4 -> LeBytes(value, 4)
              [] size = 8 ->
                    IF signed /\ value < 0
                    THEN setBytes(LeBytes(value, 4) \o Zeros(4), 1, <<255, 255, 255, 255>>)
                    ELSE LeBytes(value, 4) \o Zeros(4)
              [] size = 1 -> <<value % 256>>
              [] size = 6 -> LeBytes(value, 4) \o (IF value < 0 THEN <<255, 255>> ELSE <<0, 0>>)
              [] OTHER -> Zeros(size)
    IN  write(file, bytes)

(***************************************************************************)
(* writeInt on its own: up to MaxIntWrites calls on a new ByteArray, with  *)
(* values at the ends and in the middle of the 32-bit range, each size and *)
(* both values of signed.                                                  *)
(***************************************************************************)
MaxIntWrites == 2

WriteIntValues == {INT32_MIN, -65536, -200, -1, 5, INT32_MAX}

WriteIntInit ==
    /\ zipFile = newByteArray
    /\ zipOut = <<>>
    /\ zipPc = "ints"
    /\ zipInts = <<>>

WriteInt ==
    /\ zipPc = "ints"
    /\ Len(zipInts) < MaxIntWrites
    /\ \E value \in WriteIntValues, size \in {1, 4, 6, 8}, signed \in BOOLEAN :
          /\ zipFile' = writeInt(zipFile, value, size, signed)
          /\ zipInts' = Append(zipInts, [value |-> value, size |-> size, signed |-> signed])
    /\ UNCHANGED <<zipOut, zipPc>>
    /\ UNCHANGED zipOthers

\* C19: writeInt with size 8 and signed = true, given a negative 32-bit
\* value, appends its 8-byte little-endian two's complement encoding: the
\* 32-bit encoding of the value, then four bytes 0xFF.
C19_SignExtended ==
    \A k \in 1..Len(zipInts) :
        (zipInts[k].size = 8 /\ zipInts[k].signed /\ zipInts[k].value < 0) =>
            zipFile.buffers[k] = LeBytes(zipInts[k].value, 4) \o <<255, 255, 255, 255>>

\* the IEEE 754 double of an integer of magnitude below 2^31, little-endian
float64Bytes(v) ==
    IF v = 0 THEN Zeros(8)
    ELSE LET a == IF v < 0 THEN 0 - v ELSE v
             e == CHOOSE e \in 0..30 : 2 ^ e <= a /\ (e = 30 \/ a < 2 ^ (e + 1))
             \* the 52-bit mantissa: its top 20 bits and its low 32 bits
             frac == a - 2 ^ e
             top20 == IF e >= 20 THEN frac \div (2 ^ (e - 20)) ELSE frac * 2 ^ (20 - e)
             rest == IF e > 20 THEN frac % (2 ^ (e - 20)) ELSE 0
             biased == e + 1023
         IN  (IF e > 20
              THEN [i \in 1..4 |->
                      \* rest * 2^(32 - (e - 20)) as four bytes, without overflow
                      LET shift == 32 - (e - 20)
                          byteLow == 8 * (i - 1)
                      IN  IF byteLow + 8 <= shift THEN 0
                          ELSE IF byteLow >= shift
                               THEN (rest \div (2 ^ (byteLow - shift))) % 256
                               ELSE (rest * 2 ^ (shift - byteLow)) % 256]
              ELSE Zeros(4))
             \o <<top20 % 256, (top20 \div 256) % 256,
                  (biased % 16) * 16 + (top20 \div 65536),
                  (IF v < 0 THEN 128 ELSE 0) + (biased \div 16)>>

\* writeDouble
writeDouble(file, value) == write(file, float64Bytes(value))

\* writeInt32Compressed
\* the size of a buffer as 8 bytes, then the buffer
writeSized(file, buffer) == write(writeInt(file, Len(buffer), 8, FALSE), buffer)

writeInt32Compressed(file, data) ==
    writeSized(file, lz4Compress(usdInt32Compress(data)))

\* encodeInts: the bytes of a Float64Array of the reps (each rep is kept as
\* the eight bytes it was read from)
encodeInts(ints) == Flatten(ints)

(***************************************************************************)
(* The USD scene tree.  Objects are held by identity: a prim is an index   *)
(* of usdPrims, an attribute an index of usdAtts; ROOT is the UsdData and  *)
(* NO_OBJECT is null.                                                      *)
(***************************************************************************)
ROOT == 1

NO_OBJECT == 0

\* SpecifierType.Def
SpecifierDef == 0

\* SpecType
SpecAttribute == 1

SpecPrim == 6

SpecPseudoRoot == 7

SpecRelationship == 8

\* ValueType
VT_bool == 1

VT_int == 3

VT_float == 8

VT_token == 11

VT_matrix4d == 15

VT_vec3f == 24

VT_Dictionary == 31

VT_PathListOp == 34

VT_PathVector == 40

VT_TokenVector == 41

VT_Specifier == 42

VT_Variability == 44

VT_TimeSamples == 46

VT_DoubleVector == 48

\* new UsdPrim(name, type)
newUsdPrim(name, type) ==
    [name |-> name, specifierType |-> SpecifierDef, classType |-> type,
     parent |-> NO_OBJECT, metadata |-> <<>>, children |-> <<>>, attributes |-> <<>>,
     pathIndex |-> 0, pathJump |-> -1]

\* new UsdAttribute(name, value, type, valueTypeStr, isArray); a value is
\* [kind |-> "null"], [kind |-> "att", id |-> a], [kind |-> "prim", id |-> p]
\* or [kind |-> "data", v |-> ...]
newUsdAttribute(name, value, type, valueTypeStr, isArray) ==
    [name |-> name, value |-> value, frames |-> <<>>, qualifiers |-> <<>>,
     metadata |-> <<>>, valueType |-> type, valueTypeStr |-> valueTypeStr,
     isArray |-> isArray, parent |-> NO_OBJECT, pathIndex |-> -1, pathJump |-> 0]

\* UsdAttribute.addQualifier
addQualifier(att, qualifier) == [att EXCEPT !.qualifiers = Append(@, qualifier)]

\* UsdAttribute.isConnection
isConnection(att) == att.value.kind = "att"

\* UsdAttribute.isRelationship
isRelationship(att) == att.value.kind = "prim"

\* UsdPrim.addAttribute: the attribute a is appended to prim p
addAttribute(tree, p, a) ==
    [prims |-> [tree.prims EXCEPT ![p].attributes = Append(@, a)],
     atts |-> [tree.atts EXCEPT ![a].parent = p]]

\* UsdPrim.createChild: the new prim is the last of tree.prims
createChild(tree, p, name, type) ==
    LET child == Len(tree.prims) + 1
    IN  [prims |-> [Append(tree.prims, [newUsdPrim(name, type) EXCEPT !.parent = p])
                        EXCEPT ![p].children = Append(@, child)],
         atts |-> tree.atts]

\* the counter left as it is by the attributes of a prim
afterAttributes_NotCounted(pathIndex2, attributes) == pathIndex2

\* for (const att of this.attributes) { ...; pathIndex2++; }
afterAttributes(pathIndex2, attributes) == pathIndex2 + Len(attributes)

\* UsdPrim.updatePathIndices
RECURSIVE primUpdatePathIndices(_, _, _)
RECURSIVE updateChildren(_, _, _)
updateChildren(tree, children, pathIndex2) ==
    IF children = <<>> THEN [tree |-> tree, ret |-> pathIndex2]
    ELSE LET r == primUpdatePathIndices(tree, Head(children), pathIndex2)
         IN  updateChildren(r.tree, Tail(children), r.ret)

\* for (const att of this.attributes) att.pathIndex = this.pathIndex, on the
\* tree r.tree left by the children, and the counter returned
setAttributeIndices(r, p) ==
    [tree |-> [prims |-> r.tree.prims,
               atts |-> [a \in DOMAIN r.tree.atts |->
                            IF r.tree.atts[a].parent = p
                            THEN [r.tree.atts[a] EXCEPT !.pathIndex = r.tree.prims[p].pathIndex]
                            ELSE r.tree.atts[a]]],
     ret |-> afterAttributes(r.ret, r.tree.prims[p].attributes)]

primUpdatePathIndices(tree, p, pathIndex2) ==
    setAttributeIndices(
        updateChildren([tree EXCEPT !.prims[p].pathIndex = pathIndex2],
                       tree.prims[p].children, pathIndex2 + 1),
        p)

\* UsdData.updatePathIndices counting from 0
dataUpdatePathIndices_FromZero(tree) ==
    [tree |-> updateChildren(tree, tree.prims[ROOT].children, 0).tree, ret |-> 0]

\* UsdData.updatePathIndices
dataUpdatePathIndices(tree) ==
    [tree |-> updateChildren(tree, tree.prims[ROOT].children, 1).tree, ret |-> 0]

\* UsdPrim.countItems counting the prim's own attributes and children only
countItems_OwnOnly(prims, p) == Len(prims[p].attributes) + Len(prims[p].children)

\* UsdPrim.countItems
RECURSIVE countItems(_, _)
countItems(prims, p) ==
    LET children == prims[p].children
    IN  Len(prims[p].attributes) + Len(children)
            + SumSeq([i \in 1..Len(children) |-> countItems(prims, children[i])])

\* UsdPrim.getPathJump: the value returned (and stored in pathJump)
primGetPathJump(prims, p) ==
    LET this == prims[p]
        parent == this.parent
        hasSibling ==
            /\ parent # NO_OBJECT
            /\ \/ Len(prims[parent].children) = 0
               \/ prims[parent].children[Len(prims[parent].children)] # p
               \/ Len(prims[parent].attributes) > 0
        hasChild == Len(this.children) > 0 \/ Len(this.attributes) > 0
    IN  IF hasSibling /\ hasChild THEN countItems(prims, p) + 1
        ELSE IF hasSibling THEN 0
        ELSE IF hasChild THEN -1
        ELSE -2

\* UsdAttribute.getPathJump: the value returned (and stored in pathJump)
attGetPathJump(tree, a) ==
    LET parent == tree.atts[a].parent
    IN  IF /\ parent # NO_OBJECT
           /\ Len(tree.prims[parent].attributes) > 0
           /\ tree.prims[parent].attributes[Len(tree.prims[parent].attributes)] = a
        THEN -2 ELSE 0

(***************************************************************************)
(* CrateFile.  A method takes the fields c of the object and returns the   *)
(* fields after the call with the value returned: [c |-> ..., ret |-> ...].*)
(* A Map is a function of its keys.  The file holds tocStartBuffer itself  *)
(* (tocStartAt is its place among the buffers of the file), so a later     *)
(* write into tocStartBuffer shows in the file.                            *)
(***************************************************************************)
\* an empty Map
EmptyMap == [x \in {} |-> 0]

newCrateFile ==
    [file |-> newByteArray, toc |-> <<>>, tokenMap |-> EmptyMap, tokens |-> <<>>,
     strings |-> <<>>, fields |-> <<>>, reps |-> <<>>, repsMap |-> EmptyMap,
     fsets |-> <<>>, paths |-> <<>>, specs |-> <<>>,
     writtenDataKeys |-> <<>>, writtenDataValues |-> <<>>,
     framesRef |-> -1, tocStartBuffer |-> Zeros(8), tocStartAt |-> 0]

\* an Error thrown out of writeUsd
UnknownType == <<"Error", "Unknown type">>

NotImplemented == <<"Error", "Not implemented">>

\* addWrittenData: vType is not kept
addWrittenData(c, data, vType, ref) ==
    [c EXCEPT !.writtenDataKeys = Append(@, data),
              !.writtenDataValues = Append(@, ref)]

\* getDataReference: the value of the first key element-wise equal to data
getDataReference(c, data, vType) ==
    LET hits == { i \in 1..Len(c.writtenDataKeys) :
                    /\ Len(data) = Len(c.writtenDataKeys[i])
                    /\ \A j \in 1..Len(data) : data[j] = c.writtenDataKeys[i][j] }
    IN  IF hits = {} THEN -1
        ELSE c.writtenDataValues[CHOOSE i \in hits : \A k \in hits : i <= k]

\* getTokenIndex, a second token table entry made for a known token
getTokenIndex_AlwaysNew(c, token) ==
    [c |-> [c EXCEPT !.tokenMap = (token :> Len(c.tokens)) @@ @,
                     !.tokens = Append(@, token)],
     ret |-> Len(c.tokens)]

\* getTokenIndex
getTokenIndex(c, token) ==
    IF token \in DOMAIN c.tokenMap
    THEN [c |-> c, ret |-> c.tokenMap[token]]
    ELSE [c |-> [c EXCEPT !.tokenMap = (token :> Len(c.tokens)) @@ @,
                          !.tokens = Append(@, token)],
          ret |-> Len(c.tokens)]

\* token.replace(/"/g, '') on the strings of the model
stripQuotes(token) ==
    CASE token = "\"a\"" -> "a"
      [] token = "\"\"" -> ""
      [] OTHER -> token

\* for (const token of tokens) data.push(this.getTokenIndex(token.replace(...)))
RECURSIVE getTokenIndices(_, _, _)
getTokenIndices(c, tokens, data) ==
    IF tokens = <<>> THEN [c |-> c, ret |-> data]
    ELSE LET r == getTokenIndex(c, stripQuotes(Head(tokens)))
         IN  getTokenIndices(r.c, Tail(tokens), Append(data, r.ret))

\* Array.prototype.indexOf, 0-based, -1 when absent
indexOf(arr, x) ==
    IF \E i \in 1..Len(arr) : arr[i] = x
    THEN (CHOOSE i \in 1..Len(arr) : arr[i] = x /\ \A k \in 1..(i - 1) : arr[k] # x) - 1
    ELSE -1

\* getStringIndex
getStringIndex(c, str) ==
    LET r == getTokenIndex(c, str)
        i == indexOf(r.c.strings, r.ret)
    IN  IF i # -1 THEN [c |-> r.c, ret |-> i]
        ELSE [c |-> [r.c EXCEPT !.strings = Append(@, r.ret)], ret |-> Len(r.c.strings)]

\* addFieldSet with no sentinel after an empty group
addFieldSet_EmptyUnterminated(c, fset) ==
    [c |-> [c EXCEPT !.fsets = IF fset = <<>> THEN @ ELSE (@ \o fset) \o <<-1>>],
     ret |-> Len(c.fsets)]

\* addFieldSet
addFieldSet(c, fset) ==
    [c |-> [c EXCEPT !.fsets = (@ \o fset) \o <<-1>>], ret |-> Len(c.fsets)]

\* the key of addFieldItem: payload + field * 2^32 + 2^42 (array)
\* + 2^40 (compressed) + 2^41 (inline), as a wide number; vType is no part
repKey(field, array, inline, compressed, payload) ==
    LET upperPart == field + (IF array THEN 1024 ELSE 0) + (IF compressed THEN 256 ELSE 0)
                        + (IF inline THEN 512 ELSE 0)
    IN  [hi |-> upperPart * WORD + (payload \div WORD), lo |-> payload % WORD]

\* the rep of addFieldItem, as the eight bytes of tmpDataView: the payload,
\* then upper = vType << 16 | array << 31 | inline << 30 | compressed << 29
repBytes(vType, array, inline, compressed, payload) ==
    LeBytes(payload, 4)
        \o <<0, 0, vType % 256,
             ((vType \div 256) % 32) + (IF array THEN 128 ELSE 0)
                + (IF inline THEN 64 ELSE 0) + (IF compressed THEN 32 ELSE 0)>>

\* addFieldItem
addFieldItem(c, field, vType, array, inline, compressed, payload) ==
    LET repIndex == Len(c.reps)
        key == repKey(field, array, inline, compressed, payload)
        rep == repBytes(vType, array, inline, compressed, payload)
    IN  IF key \in DOMAIN c.repsMap
        THEN [c |-> c, ret |-> c.repsMap[key]]
        ELSE [c |-> [c EXCEPT !.repsMap = (key :> repIndex) @@ @,
                              !.fields = Append(@, field),
                              !.reps = Append(@, rep)],
              ret |-> repIndex]

\* writeInt(this.file, x, size) for each x of data
\* n turns of the loop writing the integers of data: st = [i, file]
RECURSIVE writeIntsFrom(_, _, _, _, _)
writeIntsFrom(data, size, signed, st, n) ==
    IF n <= 0 \/ ~(st.i < Len(data)) THEN st
    ELSE IF n = 1
    THEN [i |-> st.i + 1, file |-> writeInt(st.file, data[st.i + 1], size, signed)]
    ELSE writeIntsFrom(data, size, signed,
                       writeIntsFrom(data, size, signed, st, n \div 2), n - (n \div 2))

writeInts(file, data, size, signed) ==
    writeIntsFrom(data, size, signed, [i |-> 0, file |-> file], Len(data)).file

\* addFieldTokens
addFieldTokens(c, field, data) ==
    LET f == getTokenIndex(c, field)
        t == getTokenIndices(f.c, data, <<>>)
        ref == tell(t.c.file)
        file1 == writeInts(writeInt(t.c.file, Len(t.ret), 8, FALSE), t.ret, 4, FALSE)
    IN  addFieldItem([t.c EXCEPT !.file = file1], f.ret, VT_token, TRUE, FALSE, FALSE, ref)

\* addFieldToken
addFieldToken(c, field, data) ==
    LET f == getTokenIndex(c, field)
        t == getTokenIndex(f.c, stripQuotes(data))
    IN  addFieldItem(t.c, f.ret, VT_token, FALSE, TRUE, FALSE, t.ret)

\* addFieldTokenVector
addFieldTokenVector(c, field, tokens) ==
    LET f == getTokenIndex(c, field)
        t == getTokenIndices(f.c, tokens, <<>>)
        data == t.ret
        found == getDataReference(t.c, data, VT_TokenVector)
        ref == IF found < 0 THEN tell(t.c.file) ELSE found
        c1 == addWrittenData(t.c, data, VT_TokenVector, ref)
        file1 == write(writeInts(writeInt(c1.file, Len(data), 8, FALSE), data, 4, FALSE),
                       Zeros(4))
        c2 == IF found < 0 THEN [c1 EXCEPT !.file = file1] ELSE t.c
    IN  addFieldItem(c2, f.ret, VT_TokenVector, FALSE, FALSE, FALSE, ref)

\* addFieldPathListOp
addFieldPathListOp(c, field, pathIndex) ==
    LET f == getTokenIndex(c, field)
        ref == tell(f.c.file)
        file1 == writeInt(writeInt(writeInt(f.c.file, 3, 1, FALSE), 1, 8, FALSE),
                          pathIndex, 4, FALSE)
    IN  addFieldItem([f.c EXCEPT !.file = file1], f.ret, VT_PathListOp,
                     FALSE, FALSE, FALSE, ref)

\* addFieldPathVector
addFieldPathVector(c, field, pathIndex) ==
    LET f == getTokenIndex(c, field)
        ref == tell(f.c.file)
        file1 == writeInt(writeInt(f.c.file, 1, 8, FALSE), pathIndex, 4, FALSE)
    IN  addFieldItem([f.c EXCEPT !.file = file1], f.ret, VT_PathVector,
                     FALSE, FALSE, FALSE, ref)

\* addFieldSpecifier
addFieldSpecifier(c, field, spec) ==
    LET f == getTokenIndex(c, field)
    IN  addFieldItem(f.c, f.ret, VT_Specifier, FALSE, TRUE, FALSE, spec)

\* addFieldInts, the data written: its length, then the integers, compressed
\* when there are 16 or more
writeIntsData(file, data) ==
    IF Len(data) >= 16
    THEN writeInt32Compressed(writeInt(file, Len(data), 8, FALSE), data)
    ELSE writeInts(writeInt(file, Len(data), 8, FALSE), data, 4, TRUE)

\* addFieldInts after the field's token: c is f.c, field is f.ret and found
\* is getDataReference's answer
addFieldIntsAt(c, field, data, found) ==
    IF found < 0
    THEN addFieldItem([addWrittenData(c, data, VT_int, tell(c.file))
                            EXCEPT !.file = writeIntsData(c.file, data)],
                      field, VT_int, TRUE, FALSE, Len(data) >= 16, tell(c.file))
    ELSE addFieldItem(c, field, VT_int, TRUE, FALSE, Len(data) >= 16, found)

addFieldIntsOf(f, data) ==
    addFieldIntsAt(f.c, f.ret, data, getDataReference(f.c, data, VT_int))

\* addFieldInts
addFieldInts(c, field, data) == addFieldIntsOf(getTokenIndex(c, field), data)

\* the next k binary digits of d.r / den (0 <= d.r < den) after the point,
\* added to d.q, and the remainder left
RECURSIVE longDivision(_, _, _)
longDivision(d, den, k) ==
    IF k = 0 THEN d
    ELSE IF d.r = 0 THEN [q |-> d.q * 2 ^ k, r |-> 0]
    ELSE IF k = 1
    THEN [q |-> 2 * d.q + (IF 2 * d.r >= den THEN 1 ELSE 0), r |-> (2 * d.r) % den]
    ELSE longDivision(longDivision(d, den, k \div 2), den, k - (k \div 2))

\* the single nearest to num / den (0 < num < den), ties to even: s is the
\* number of doublings that bring it into [1, 2), d.q its 24 significant bits
roundedSingle(s, d, den) ==
    LET up == 2 * d.r > den \/ (2 * d.r = den /\ d.q % 2 = 1)
        q == IF up THEN d.q + 1 ELSE d.q
        biased == IF q = 2 ^ 24 THEN 128 - s ELSE 127 - s
        mantissa == IF q = 2 ^ 24 THEN 0 ELSE q - 2 ^ 23
    IN  <<mantissa % 256, (mantissa \div 256) % 256,
          (biased % 2) * 128 + (mantissa \div 65536), biased \div 2>>

\* DataView.setFloat32 and Float32Array of a number kept as the ratio
\* num / den: an integer or a fraction between 0 and 1
float32Of(x) ==
    IF x.num % x.den = 0 THEN float32Bytes(x.num \div x.den)
    ELSE LET s == CHOOSE s \in 1..30 : x.num * 2 ^ s >= x.den /\ x.num * 2 ^ (s - 1) < x.den
         IN  roundedSingle(s, longDivision([q |-> 0, r |-> x.num], x.den, s + 23), x.den)

\* addFieldFloat: the payload is the bits of the single, read as an int32
addFieldFloat(c, field, data) ==
    LET f == getTokenIndex(c, field)
        data2 == LeSigned(float32Of(data))
    IN  addFieldItem(f.c, f.ret, VT_float, FALSE, TRUE, FALSE, data2)

\* new Uint8Array(data.buffer) of a Float32Array
float32ArrayBytes(data) == Flatten([i \in 1..Len(data) |-> float32Of(data[i])])

\* addFieldVectors
addFieldVectors(c, field, data) ==
    LET f == getTokenIndex(c, field)
        ref == tell(f.c.file)
        file1 == write(writeInt(f.c.file, Len(data) \div 3, 8, FALSE),
                       float32ArrayBytes(data))
    IN  addFieldItem([f.c EXCEPT !.file = file1], f.ret, VT_vec3f, TRUE, FALSE, FALSE, ref)

\* addFieldVector
addFieldVector(c, field, data) ==
    LET f == getTokenIndex(c, field)
        ref == tell(f.c.file)
        file1 == write(f.c.file, float32ArrayBytes(data))
    IN  addFieldItem([f.c EXCEPT !.file = file1], f.ret, VT_vec3f, FALSE, FALSE, FALSE, ref)

\* addFieldBool
addFieldBool(c, field, data) ==
    LET f == getTokenIndex(c, field)
    IN  addFieldItem(f.c, f.ret, VT_bool, FALSE, TRUE, FALSE, IF data THEN 1 ELSE 0)

\* addFieldVariability
addFieldVariability(c, field, data) ==
    LET f == getTokenIndex(c, field)
    IN  addFieldItem(f.c, f.ret, VT_Variability, FALSE, TRUE, FALSE, IF data THEN 1 ELSE 0)

\* addFieldDictionary: data is the object's <<key, value>> pairs in key order
RECURSIVE writeDictionary(_, _)
writeDictionary(c, data) ==
    IF data = <<>> THEN c
    ELSE LET k == getStringIndex(c, Head(data)[1])
             file1 == writeInt(writeInt(k.c.file, k.ret, 4, FALSE), 8, 8, FALSE)
             v == getStringIndex([k.c EXCEPT !.file = file1], Head(data)[2])
             file2 == writeInt(writeInt(v.c.file, v.ret, 4, FALSE), 1074397184, 4, FALSE)
         IN  writeDictionary([v.c EXCEPT !.file = file2], Tail(data))

addFieldDictionary(c, field, data) ==
    LET f == getTokenIndex(c, field)
        ref == tell(f.c.file)
        c1 == [f.c EXCEPT !.file = writeInt(@, Len(data), 8, FALSE)]
    IN  addFieldItem(writeDictionary(c1, data), f.ret, VT_Dictionary,
                     FALSE, FALSE, FALSE, ref)

\* the values of the time samples: the file after them and their offsets
RECURSIVE writeSampleValues(_, _, _, _)
writeSampleValues(file, data, vType, refs) ==
    IF data = <<>> THEN [file |-> file, refs |-> refs]
    ELSE LET value == Head(data)[2]
             file1 == CASE vType = VT_vec3f -> write(file, float32ArrayBytes(value))
                        [] vType = VT_matrix4d ->
                              write(file, Flatten([i \in 1..Len(value) |-> float64Bytes(value[i])]))
                        [] OTHER -> file
         IN  writeSampleValues(file1, Tail(data), vType, Append(refs, tell(file)))

RECURSIVE writeDoubles(_, _)
writeDoubles(file, frames) ==
    IF frames = <<>> THEN file
    ELSE writeDoubles(writeDouble(file, Head(frames)), Tail(frames))

RECURSIVE writeSampleRefs(_, _, _, _)
writeSampleRefs(file, refs, vType, elem) ==
    IF refs = <<>> THEN file
    ELSE writeSampleRefs(
            writeInt(writeInt(writeInt(file, Head(refs), 6, FALSE), vType, 1, FALSE),
                     elem, 1, FALSE),
            Tail(refs), vType, elem)

\* addFieldTimeSamples: data is the <<frame, value>> pairs
addFieldTimeSamples(c, field, data, vType) ==
    LET f == getTokenIndex(c, field)
        count == Len(data)
        size == 8 * (count + 2)
        elem == 0
        frames == [i \in 1..count |-> data[i][1]]
        vals == writeSampleValues(f.c.file, data, vType, <<>>)
        ref == tell(vals.file)
        file1 ==
            IF f.c.framesRef > 0
            THEN writeInt(writeInt(writeInt(writeInt(vals.file, 8, 8, FALSE),
                    f.c.framesRef + 8, 6, FALSE), VT_DoubleVector, 1, FALSE), 0, 1, FALSE)
            ELSE writeInt(writeInt(writeInt(
                    writeDoubles(writeInt(writeInt(vals.file, size, 8, FALSE), count, 8, FALSE),
                                 frames),
                    ref + 8, 6, FALSE), VT_DoubleVector, 1, FALSE), 0, 1, FALSE)
        file2 == writeSampleRefs(writeInt(writeInt(file1, 8, 8, FALSE), count, 8, FALSE),
                                 vals.refs, vType, elem)
        c1 == [f.c EXCEPT !.file = file2,
                          !.framesRef = IF f.c.framesRef > 0 THEN @ ELSE ref]
    IN  addFieldItem(c1, f.ret, VT_TimeSamples, FALSE, FALSE, FALSE, ref)

\* addField: the writer of the attribute's value type; ret is UnknownType
\* when the method throws
addField(c, field, usdAtt) ==
    LET value == usdAtt.value.v
        vType == usdAtt.valueType
    IN  CASE vType = VT_token ->
                IF usdAtt.isArray THEN addFieldTokens(c, field, value)
                ELSE addFieldToken(c, field, value)
          [] vType = VT_Specifier -> addFieldSpecifier(c, field, value)
          [] vType = VT_int -> addFieldInts(c, field, value)
          [] vType = VT_float -> addFieldFloat(c, field, value)
          [] vType = VT_vec3f ->
                IF usdAtt.isArray THEN addFieldVectors(c, field, value)
                ELSE addFieldVector(c, field, value)
          [] vType = VT_bool -> addFieldBool(c, field, value)
          [] vType = VT_Variability -> addFieldVariability(c, field, value)
          [] vType = VT_Dictionary -> addFieldDictionary(c, field, value)
          [] OTHER -> [c |-> c, ret |-> UnknownType]

\* addPath with the token negated when the entry is not flagged
addPath_NegateUnflagged(c, path, token, jump, prim) ==
    [c EXCEPT !.paths = Append(@, <<path, IF prim THEN token ELSE token * (-1), jump>>)]

\* addPath: the token is negated when the argument prim is true
addPath(c, path, token, jump, prim) ==
    [c EXCEPT !.paths = Append(@, <<path, IF prim THEN token * (-1) ELSE token, jump>>)]

\* addSpec returning the number of specs after the push
addSpec_LengthAfter(c, fset, sType) ==
    [c |-> [c EXCEPT !.specs = Append(@, <<Len(c.specs), fset, sType>>)],
     ret |-> Len(c.specs) + 1]

\* addSpec
addSpec(c, fset, sType) ==
    [c |-> [c EXCEPT !.specs = Append(@, <<Len(c.specs), fset, sType>>)],
     ret |-> Len(c.specs)]

\* writeBootstrap with 72 zero bytes at its end
writeBootstrap_LongerReserve(c) ==
    LET file1 == write(write(c.file, <<80, 88, 82, 45, 85, 83, 68, 67>>),
                       <<0, 7, 0, 0, 0, 0, 0, 0>>)
        file2 == write(file1, c.tocStartBuffer)
    IN  [c EXCEPT !.file = write(file2, Zeros(72)),
                  !.tocStartAt = Len(file2.buffers)]

\* writeBootstrap: "PXR-USDC", the version, tocStartBuffer and 64 zero bytes
writeBootstrap(c) ==
    LET file1 == write(write(c.file, <<80, 88, 82, 45, 85, 83, 68, 67>>),
                       <<0, 7, 0, 0, 0, 0, 0, 0>>)
        file2 == write(file1, c.tocStartBuffer)
    IN  [c EXCEPT !.file = write(file2, Zeros(64)),
                  !.tocStartAt = Len(file2.buffers)]

\* the token buffer of writeTokensSection: each token's character codes and
\* a zero byte
tokenBuffer(tokens) == Flatten([i \in 1..Len(tokens) |-> Append(Chars(tokens[i]), 0)])

\* endSection with the end offset pushed as the size
endSection_EndAsSize(c, name, file) ==
    [c EXCEPT !.file = file,
              !.toc = Append(@, <<name, tell(c.file), tell(file)>>)]

\* the end of a section writer: c is the CrateFile before the section, file
\* the file after it; this.toc.push([name, start, size])
endSection(c, name, file) ==
    [c EXCEPT !.file = file,
              !.toc = Append(@, <<name, tell(c.file), tell(file) - tell(c.file)>>)]

\* writeTokensSection, the token buffer made
writeTokenBuffer(c, buffer) ==
    endSection(c, "TOKENS",
               writeSized(writeInt(writeInt(c.file, Len(c.tokens), 8, FALSE),
                                   Len(buffer), 8, FALSE),
                          lz4Compress(buffer)))

writeTokensSection(c) == writeTokenBuffer(c, tokenBuffer(c.tokens))

writeStringsSection(c) ==
    endSection(c, "STRINGS",
               writeInts(writeInt(c.file, Len(c.strings), 8, FALSE), c.strings, 4, FALSE))

writeFieldsSection(c) ==
    endSection(c, "FIELDS",
               writeSized(writeInt32Compressed(writeInt(c.file, Len(c.fields), 8, FALSE),
                                               c.fields),
                          lz4Compress(encodeInts(c.reps))))

writeFieldSetsSection(c) ==
    endSection(c, "FIELDSETS",
               writeInt32Compressed(writeInt(c.file, Len(c.fsets), 8, FALSE), c.fsets))

\* column k of a table of triples
column(table, k) == [i \in 1..Len(table) |-> table[i][k]]

\* the three columns of a table, each compressed
writeColumns(file, table) ==
    writeInt32Compressed(
        writeInt32Compressed(
            writeInt32Compressed(file, column(table, 1)),
            column(table, 2)),
        column(table, 3))

writePathsSection(c) ==
    endSection(c, "PATHS",
               writeColumns(writeInt(writeInt(c.file, Len(c.paths), 8, FALSE),
                                     Len(c.paths), 8, FALSE),
                            c.paths))

writeSpecsSection(c) ==
    endSection(c, "SPECS",
               writeColumns(writeInt(c.file, Len(c.specs), 8, FALSE), c.specs))

\* the 16-byte name of a section, then its start and its size
RECURSIVE writeTocEntries(_, _)
writeTocEntries(file, toc) ==
    IF toc = <<>> THEN file
    ELSE LET name == Chars(Head(toc)[1])
             buffer == [i \in 1..16 |-> IF i <= Len(name) THEN name[i] ELSE 0]
         IN  writeTocEntries(
                writeInt(writeInt(write(file, buffer), Head(toc)[2], 8, FALSE),
                         Head(toc)[3], 8, FALSE),
                Tail(toc))

\* writeTableOfContents: the offset of the table goes into tocStartBuffer,
\* which is the buffer the file holds at tocStartAt; file is the file after
\* the entries
setTocStart(c, file) ==
    [c EXCEPT !.tocStartBuffer = setUint32(@, 0, tell(c.file)),
              !.file = IF c.tocStartAt = 0 THEN file
                       ELSE [file EXCEPT !.buffers[c.tocStartAt] =
                                            setUint32(c.tocStartBuffer, 0, tell(c.file))]]

writeTableOfContents(c) ==
    setTocStart(c, writeTocEntries(writeInt(c.file, Len(c.toc), 8, FALSE), c.toc))

\* one call that adds a field: the CrateFile method named by call.op
fieldCall(c, call) ==
    CASE call.op = "Token" -> addFieldToken(c, call.field, call.data)
      [] call.op = "Variability" -> addFieldVariability(c, call.field, call.data)
      [] call.op = "Bool" -> addFieldBool(c, call.field, call.data)
      [] call.op = "Float" -> addFieldFloat(c, call.field, call.data)
      [] call.op = "Specifier" -> addFieldSpecifier(c, call.field, call.data)
      [] call.op = "PathListOp" -> addFieldPathListOp(c, call.field, call.data)
      [] call.op = "PathVector" -> addFieldPathVector(c, call.field, call.data)
      [] call.op = "Dictionary" -> addFieldDictionary(c, call.field, call.data)
      [] call.op = "TokenVector" -> addFieldTokenVector(c, call.field, call.data)
      [] call.op = "TimeSamples" ->
            addFieldTimeSamples(c, call.field, call.data.frames, call.data.valueType)
      [] call.op = "Default" -> addField(c, call.field, call.data)

\* the value types addField writes
AddFieldTypes ==
    {VT_token, VT_Specifier, VT_int, VT_float, VT_vec3f, VT_bool, VT_Variability,
     VT_Dictionary}

callThrows(call) ==
    \/ call.op = "Throw"
    \/ call.op = "Default" /\ call.data.valueType \notin AddFieldTypes

\* fset.push(r.ret) after the call that returned r: st = [i, c, ret, threw]
pushed(st, r) ==
    [i |-> st.i + 1, c |-> r.c, ret |-> Append(st.ret, r.ret), threw |-> FALSE]

\* a throwing call passed over
addFieldStep_ThrowSkipped(call, st) ==
    IF callThrows(call) THEN [st EXCEPT !.i = @ + 1]
    ELSE pushed(st, fieldCall(st.c, call))

\* fset.push(this.addField...(...)) for one call, or its throw
addFieldStep(call, st) ==
    IF callThrows(call) THEN [st EXCEPT !.threw = TRUE]
    ELSE pushed(st, fieldCall(st.c, call))

\* the calls in turn, up to a throw
RECURSIVE addFieldsFrom(_, _)
addFieldsFrom(calls, st) ==
    IF st.threw \/ ~(st.i < Len(calls)) THEN st
    ELSE addFieldsFrom(calls, addFieldStep(calls[st.i + 1], st))

addFields(c, calls, fset) ==
    addFieldsFrom(calls, [i |-> 0, c |-> c, ret |-> fset, threw |-> FALSE])

aCall(op, field, data) == [op |-> op, field |-> field, data |-> data]

\* the calls made for the qualifiers of an attribute
RECURSIVE qualifierCalls(_)
qualifierCalls(qualifiers) ==
    IF qualifiers = <<>> THEN <<>>
    ELSE (CASE Head(qualifiers) = "uniform" -> <<aCall("Variability", "variability", TRUE)>>
            [] Head(qualifiers) = "custom" -> <<aCall("Bool", "custom", TRUE)>>
            [] OTHER -> <<>>)
         \o qualifierCalls(Tail(qualifiers))

\* the end of each attribute writer: the field set, the spec whose index
\* becomes usdAtt.pathIndex, the name token, the jump and the path entry
finishAttribute(tree, a, fields, sType) ==
    LET fs == addFieldSet(fields.c, fields.ret)
        sp == addSpec(fs.c, fs.ret, sType)
        tree1 == [tree EXCEPT !.atts[a].pathIndex = sp.ret]
        nameToken == getTokenIndex(sp.c, tree.atts[a].name)
        pathJump == attGetPathJump(tree1, a)
    IN  IF fields.threw THEN [c |-> fields.c, tree |-> tree, threw |-> TRUE]
        ELSE [c |-> addPath(nameToken.c, sp.ret, nameToken.ret, pathJump, TRUE),
              tree |-> [tree1 EXCEPT !.atts[a].pathJump = pathJump],
              threw |-> FALSE]

\* writeUsdConnection holding the path index of the connection itself
writeUsdConnection_OwnIndex(c, tree, a) ==
    LET usdAtt == tree.atts[a]
        pathIndex == usdAtt.pathIndex
        calls == <<aCall("Token", "typeName", "token")>>
                    \o qualifierCalls(usdAtt.qualifiers)
                    \o <<aCall("PathListOp", "connectionPaths", pathIndex),
                         aCall("PathVector", "connectionChildren", pathIndex)>>
    IN  finishAttribute(tree, a, addFields(c, calls, <<>>), SpecAttribute)

writeUsdConnection(c, tree, a) ==
    LET usdAtt == tree.atts[a]
        pathIndex == tree.atts[usdAtt.value.id].pathIndex
        calls == <<aCall("Token", "typeName", "token")>>
                    \o qualifierCalls(usdAtt.qualifiers)
                    \o <<aCall("PathListOp", "connectionPaths", pathIndex),
                         aCall("PathVector", "connectionChildren", pathIndex)>>
    IN  finishAttribute(tree, a, addFields(c, calls, <<>>), SpecAttribute)

writeUsdRelationship(c, tree, a) ==
    LET usdAtt == tree.atts[a]
        pathIndex == tree.prims[usdAtt.value.id].pathIndex
        calls == <<aCall("Variability", "variability", TRUE),
                   aCall("PathListOp", "targetPaths", pathIndex),
                   aCall("PathVector", "targetChildren", pathIndex)>>
    IN  finishAttribute(tree, a, addFields(c, calls, <<>>), SpecRelationship)

writeUsdAttribute(c, tree, a) ==
    LET usdAtt == tree.atts[a]
        calls == <<aCall("Token", "typeName", usdAtt.valueTypeStr)>>
                    \o qualifierCalls(usdAtt.qualifiers)
                    \o [i \in 1..Len(usdAtt.metadata) |->
                            aCall("Token", usdAtt.metadata[i][1], usdAtt.metadata[i][2])]
                    \o (IF usdAtt.value.kind # "null"
                        THEN <<aCall("Default", "default", usdAtt)>> ELSE <<>>)
                    \o (IF Len(usdAtt.frames) > 0
                        THEN <<aCall("TimeSamples", "timeSamples", usdAtt)>> ELSE <<>>)
    IN  finishAttribute(tree, a, addFields(c, calls, <<>>), SpecAttribute)

\* the names of the objects of a list, in order
namesOf(objects, ids) == [i \in 1..Len(ids) |-> objects[ids[i]].name]

\* the calls made for the metadata of a prim; a value is [t |-> "prim",
\* v |-> p], [t |-> "object", v |-> pairs], [t |-> "string", v |-> s],
\* [t |-> "number", v |-> n] or [t |-> "boolean", v |-> b]
RECURSIVE primMetadataCalls(_, _)
primMetadataCalls(tree, metadata) ==
    IF metadata = <<>> THEN <<>>
    ELSE LET name == Head(metadata)[1]
             value == Head(metadata)[2]
         IN  (CASE name = "inherits" ->
                      <<aCall("PathListOp", "inheritPaths", tree.prims[value.v].pathIndex)>>
                [] name = "references" -> <<aCall("Throw", name, NotImplemented)>>
                [] value.t = "object" -> <<aCall("Dictionary", name, value.v)>>
                [] value.t = "string" -> <<aCall("Token", name, value.v)>>
                [] value.t = "number" -> <<aCall("Float", name, value.v)>>
                [] value.t = "boolean" -> <<aCall("Bool", name, value.v)>>
                [] OTHER -> <<>>)
             \o primMetadataCalls(tree, Tail(metadata))

\* the calls made for the metadata of the root
RECURSIVE rootMetadataCalls(_)
rootMetadataCalls(metadata) ==
    IF metadata = <<>> THEN <<>>
    ELSE LET name == Head(metadata)[1]
             value == Head(metadata)[2]
         IN  (CASE value.t = "number" -> <<aCall("Float", name, value.v)>>
                [] value.t = "string" -> <<aCall("Token", name, value.v)>>
                [] value.t = "boolean" -> <<aCall("Bool", name, value.v)>>
                [] OTHER -> <<>>)
             \o rootMetadataCalls(Tail(metadata))

\* the end of writeUsdPrim and of the root's part of writeUsd: the field
\* set, the spec whose index becomes pathIndex, the name token, the jump
\* and the path entry
finishPrim(tree, p, name, fields, sType) ==
    LET fs == addFieldSet(fields.c, fields.ret)
        sp == addSpec(fs.c, fs.ret, sType)
        tree1 == [tree EXCEPT !.prims[p].pathIndex = sp.ret]
        nameToken == getTokenIndex(sp.c, name)
        pathJump == primGetPathJump(tree1.prims, p)
    IN  IF fields.threw THEN [c |-> fields.c, tree |-> tree, threw |-> TRUE]
        ELSE [c |-> addPath(nameToken.c, sp.ret, nameToken.ret, pathJump, FALSE),
              tree |-> [tree1 EXCEPT !.prims[p].pathJump = pathJump],
              threw |-> FALSE]

\* the calls of writeUsdPrim
primCalls(tree, usdPrim) ==
    <<aCall("Specifier", "specifier", usdPrim.specifierType),
      aCall("Token", "typeName", usdPrim.classType)>>
        \o primMetadataCalls(tree, usdPrim.metadata)
        \o (IF Len(usdPrim.attributes) > 0
            THEN <<aCall("TokenVector", "properties",
                         namesOf(tree.atts, usdPrim.attributes))>>
            ELSE <<>>)
        \o (IF Len(usdPrim.children) > 0
            THEN <<aCall("TokenVector", "primChildren",
                         namesOf(tree.prims, usdPrim.children))>>
            ELSE <<>>)

\* writeUsdPrim up to its path entry; the children and then the attributes
\* of the prim are written next
writeUsdPrim(c, tree, p) ==
    finishPrim(tree, p, tree.prims[p].name,
               addFields(c, primCalls(tree, tree.prims[p]), <<>>), SpecPrim)

\* the calls of writeUsd for the root
rootCalls(tree, usdData) ==
    rootMetadataCalls(usdData.metadata)
        \o (IF Len(usdData.children) > 0
            THEN <<aCall("TokenVector", "primChildren",
                         namesOf(tree.prims, usdData.children))>>
            ELSE <<>>)

\* writeUsd from the root metadata to the first path entry
writeUsdRoot(c, tree) ==
    finishPrim(tree, ROOT, "", addFields(c, rootCalls(tree, tree.prims[ROOT]), <<>>),
               SpecPseudoRoot)

(***************************************************************************)
(* The scene trees the writer is run on: up to maxNodes prims and          *)
(* attributes under the root, built with the constructors.  Prim i + 1 is  *)
(* created as the last child of an earlier prim; attribute a is added to   *)
(* its owner in the order of a; an attribute holds data, is connected to   *)
(* the next attribute, or is a relationship to the first prim.             *)
(***************************************************************************)
primNames == <<"ar", "Materials", "k0", "m0", "k1", "m1">>

primTypes == <<"Xform", "Scope", "Material", "Mesh", "Material", "Mesh">>

\* prim.metadata[name] = value
setMetadata(tree, p, name, value) ==
    [tree EXCEPT !.prims[p].metadata = Append(@, <<name, value>>)]

RECURSIVE buildPrims(_, _, _)
buildPrims(tree, parents, i) ==
    IF i > Len(parents) THEN tree
    ELSE buildPrims(createChild(tree, parents[i], primNames[i], primTypes[i]),
                    parents, i + 1)

\* the attribute a of nA attributes, of a flavor
attributeOf(a, nA, flavor, nP) ==
    CASE flavor = "conn" ->
            newUsdAttribute("outputs:surface", [kind |-> "att", id |-> (a % nA) + 1],
                            0, "token", FALSE)
      [] flavor = "rel" ->
            newUsdAttribute("material:binding",
                            [kind |-> "prim", id |-> IF nP > 0 THEN ROOT + 1 ELSE ROOT],
                            0, "rel", FALSE)
      [] flavor = "bad" ->
            newUsdAttribute("points",
                            [kind |-> "data", v |-> IF a % 2 = 1 THEN "a" ELSE <<1>>],
                            VT_matrix4d, "matrix4d", FALSE)
      [] flavor = "data" /\ a % 2 = 1 ->
            addQualifier(newUsdAttribute("info:id", [kind |-> "data", v |-> "UsdPreviewSurface"],
                                         VT_token, "token", FALSE), "uniform")
      [] OTHER ->
            newUsdAttribute("faceVertexIndices", [kind |-> "data", v |-> <<0, 1, 2>>],
                            VT_int, "int[]", TRUE)

RECURSIVE addAttributes(_, _, _)
addAttributes(tree, owners, a) ==
    IF a > Len(owners) THEN tree
    ELSE addAttributes(addAttribute(tree, owners[a], a), owners, a + 1)

treeOf(parents, owners, flavors) ==
    LET nP == Len(parents)
        nA == Len(owners)
        root == [prims |-> <<newUsdPrim("", "")>>,
                 atts |-> [a \in 1..nA |-> attributeOf(a, nA, flavors[a], nP)]]
        prims == buildPrims(root, parents, 1)
        tagged == IF nP > 0
                  THEN setMetadata(prims, ROOT + 1, "kind", [t |-> "string", v |-> "component"])
                  ELSE prims
    IN  addAttributes(tagged, owners, 1)

UsdTrees(maxNodes) ==
    UNION { UNION { { treeOf(parents, owners, flavors) :
                        parents \in { f \in [1..nP -> 1..(nP + 1)] : \A i \in 1..nP : f[i] <= i },
                        owners \in [1..nA -> 1..(nP + 1)],
                        flavors \in { f \in [1..nA -> {"data", "conn", "rel"}] :
                                        nA = 1 => f[1] # "conn" } } :
                    nA \in 0..(maxNodes - nP) } :
            nP \in 0..maxNodes }

MaxNodes == 4

(***************************************************************************)
(* writeUsd, step by step: the index pass, the bootstrap, the root, each   *)
(* prim and attribute in the order of the traversal, the sections and the  *)
(* table of contents.                                                      *)
(***************************************************************************)
usdTree == [prims |-> usdPrims, atts |-> usdAtts]

primItems(ids) == [i \in 1..Len(ids) |-> [kind |-> "prim", id |-> ids[i]]]

attItems(ids) == [i \in 1..Len(ids) |-> [kind |-> "att", id |-> ids[i]]]

UsdInit ==
    /\ \E tree \in UsdTrees(MaxNodes) :
          /\ usdPrims = tree.prims
          /\ usdAtts = tree.atts
    /\ crate = newCrateFile
    /\ usdStack = <<>>
    /\ usdWritten = <<>>
    /\ usdPc = "new"
    /\ crateLog = <<>>

UsdIdle ==
    /\ usdPrims = <<>>
    /\ usdAtts = <<>>
    /\ crate = newCrateFile
    /\ usdStack = <<>>
    /\ usdWritten = <<>>
    /\ usdPc = "idle"
    /\ crateLog = <<>>

UpdatePathIndices ==
    /\ usdPc = "new"
    /\ usdPrims' = dataUpdatePathIndices(usdTree).tree.prims
    /\ usdAtts' = dataUpdatePathIndices(usdTree).tree.atts
    /\ usdPc' = "indexed"
    /\ UNCHANGED <<crate, usdStack, usdWritten, crateLog>>
    /\ UNCHANGED usdOthers

WriteBootstrap ==
    /\ usdPc = "indexed"
    /\ crate' = writeBootstrap(crate)
    /\ usdPc' = "boot"
    /\ UNCHANGED <<usdPrims, usdAtts, usdStack, usdWritten, crateLog>>
    /\ UNCHANGED usdOthers

\* the step of the prim writer on a prim p: r is what the writer returns,
\* stack the work left after the step
primStep(r, p, stack) ==
    /\ crate' = r.c
    /\ usdPrims' = r.tree.prims
    /\ usdAtts' = r.tree.atts
    /\ usdPc' = IF r.threw THEN "threw" ELSE "body"
    /\ usdStack' = stack
    /\ usdWritten' = Append(usdWritten, [kind |-> "prim", id |-> p])
    /\ UNCHANGED crateLog
    /\ UNCHANGED usdOthers

WriteUsdRoot ==
    /\ usdPc = "boot"
    /\ primStep(writeUsdRoot(crate, usdTree), ROOT, primItems(usdPrims[ROOT].children))

WriteUsdPrim ==
    /\ usdPc = "body"
    /\ usdStack # <<>>
    /\ Head(usdStack).kind = "prim"
    /\ primStep(writeUsdPrim(crate, usdTree, Head(usdStack).id), Head(usdStack).id,
                (primItems(usdPrims[Head(usdStack).id].children)
                    \o attItems(usdPrims[Head(usdStack).id].attributes))
                    \o Tail(usdStack))

\* the step of an attribute writer on the attribute at the head of the stack
attributeStep(r) ==
    /\ crate' = r.c
    /\ usdPrims' = r.tree.prims
    /\ usdAtts' = r.tree.atts
    /\ usdPc' = IF r.threw THEN "threw" ELSE "body"
    /\ usdStack' = Tail(usdStack)
    /\ usdWritten' = Append(usdWritten, Head(usdStack))
    /\ UNCHANGED crateLog
    /\ UNCHANGED usdOthers

atHead(kind) == usdPc = "body" /\ usdStack # <<>> /\ Head(usdStack).kind = kind

WriteUsdConnection ==
    /\ atHead("att")
    /\ isConnection(usdAtts[Head(usdStack).id])
    /\ attributeStep(writeUsdConnection(crate, usdTree, Head(usdStack).id))

WriteUsdRelationship ==
    /\ atHead("att")
    /\ ~isConnection(usdAtts[Head(usdStack).id])
    /\ isRelationship(usdAtts[Head(usdStack).id])
    /\ attributeStep(writeUsdRelationship(crate, usdTree, Head(usdStack).id))

WriteUsdAttribute ==
    /\ atHead("att")
    /\ ~isConnection(usdAtts[Head(usdStack).id])
    /\ ~isRelationship(usdAtts[Head(usdStack).id])
    /\ attributeStep(writeUsdAttribute(crate, usdTree, Head(usdStack).id))

\* writeSections: the six section writers, each on the file the one before
\* it left
WriteSections ==
    /\ usdPc = "body"
    /\ usdStack = <<>>
    /\ \E tokens \in {writeTokensSection(crate)} :
       \E strings \in {writeStringsSection(tokens)} :
       \E fields \in {writeFieldsSection(strings)} :
       \E fieldSets \in {writeFieldSetsSection(fields)} :
       \E paths \in {writePathsSection(fieldSets)} :
          crate' = writeSpecsSection(paths)
    /\ usdPc' = "sections"
    /\ UNCHANGED <<usdPrims, usdAtts, usdStack, usdWritten, crateLog>>
    /\ UNCHANGED usdOthers

WriteTableOfContents ==
    /\ usdPc = "sections"
    /\ crate' = writeTableOfContents(crate)
    /\ usdPc' = "done"
    /\ UNCHANGED <<usdPrims, usdAtts, usdStack, usdWritten, crateLog>>
    /\ UNCHANGED usdOthers

\* crateFile.getUsdz() after writeUsd returned
CrateGetUsdz ==
    /\ usdPc = "done"
    /\ zipOut' = getUsdzFromUsdc(crate.file)
    /\ usdPc' = "returned"
    /\ UNCHANGED <<usdPrims, usdAtts, crate, usdStack, usdWritten, crateLog>>
    /\ UNCHANGED <<zipFile, zipPc, zipInts>>
    /\ UNCHANGED <<lzVars, icVars, meshVars>>

(***************************************************************************)
(* exportUsdz: the scene built from the mesh set (the root, 'ar' with its  *)
(* metadata, 'Materials', and per entry a Material with its Shader and a   *)
(* Mesh), handed to writeUsd and then to getUsdz.  A prim or attribute     *)
(* just created is the last of tree.prims or tree.atts.                    *)
(***************************************************************************)
\* prim.addAttribute(new UsdAttribute(...))
addNewAttribute(tree, p, att) ==
    addAttribute([prims |-> tree.prims, atts |-> Append(tree.atts, att)],
                 p, Len(tree.atts) + 1)

\* att.metadata[name] = value
setAttributeMetadata(att, name, value) ==
    [att EXCEPT !.metadata = Append(@, <<name, value>>)]

\* 'k' + String(refId) and 'm' + String(refId)
materialName(refId) == <<"k0", "k1", "k2">>[refId + 1]

meshName(refId) == <<"m0", "m1", "m2">>[refId + 1]

\* vecsToFloatArray: the components of the vectors in a row
vecsToFloatArray(v) ==
    [i \in 1..(3 * Len(v)) |-> [num |-> v[((i - 1) \div 3) + 1][((i - 1) % 3) + 1], den |-> 1]]

\* the four attributes of the shader usdShader
shaderAttributes(tree, usdShader, rgb) ==
    addNewAttribute(
        addNewAttribute(
            addNewAttribute(
                addNewAttribute(tree, usdShader,
                    addQualifier(newUsdAttribute("info:id",
                                                 [kind |-> "data", v |-> "UsdPreviewSurface"],
                                                 VT_token, "token", FALSE), "uniform")),
                usdShader,
                newUsdAttribute("inputs:diffuseColor", [kind |-> "data", v |-> rgb],
                                VT_vec3f, "color3f", FALSE)),
            usdShader,
            newUsdAttribute("inputs:roughness", [kind |-> "data", v |-> [num |-> 1, den |-> 5]],
                            VT_float, "float", FALSE)),
        usdShader,
        newUsdAttribute("outputs:surface", [kind |-> "null"], VT_token, "token", FALSE))

\* the shader, the last prim of tree, gets its attributes
shaderOf(tree, rgb) == shaderAttributes(tree, Len(tree.prims), rgb)

\* the material's own outputs:surface, connected to the attribute surface,
\* the last one of tree
connectSurface(tree, usdMaterial) ==
    addNewAttribute(tree, usdMaterial,
        newUsdAttribute("outputs:surface", [kind |-> "att", id |-> Len(tree.atts)],
                        0, "token", FALSE))

\* the material, the last prim of tree, gets its shader and its connection
materialOf(tree, rgb) ==
    connectSurface(shaderOf(createChild(tree, Len(tree.prims), "surfaceShader", "Shader"), rgb),
                   Len(tree.prims))

\* the seven attributes of the mesh prim usdMesh
meshAttributes(tree, usdMesh, mesh, usdMaterial) ==
    addNewAttribute(
     addNewAttribute(
      addNewAttribute(
       addNewAttribute(
        addNewAttribute(
         addNewAttribute(
          addNewAttribute(tree, usdMesh,
             newUsdAttribute("material:binding", [kind |-> "prim", id |-> usdMaterial],
                             0, "rel", FALSE)),
          usdMesh,
          newUsdAttribute("doubleSided", [kind |-> "data", v |-> FALSE], VT_bool, "bool", FALSE)),
         usdMesh,
         newUsdAttribute("faceVertexCounts",
                         [kind |-> "data", v |-> [i \in 1..(Len(mesh.faces) \div 3) |-> 3]],
                         VT_int, "int[]", TRUE)),
        usdMesh,
        newUsdAttribute("faceVertexIndices", [kind |-> "data", v |-> mesh.faces],
                        VT_int, "int[]", TRUE)),
       usdMesh,
       newUsdAttribute("points", [kind |-> "data", v |-> vecsToFloatArray(mesh.positions)],
                       VT_vec3f, "point3f[]", TRUE)),
      usdMesh,
      setAttributeMetadata(
          newUsdAttribute("primvars:normals",
                          [kind |-> "data", v |-> vecsToFloatArray(mesh.normals)],
                          VT_vec3f, "normal3f[]", TRUE),
          "interpolation", "vertex")),
     usdMesh,
     addQualifier(newUsdAttribute("subdivisionScheme", [kind |-> "data", v |-> "none"],
                                  VT_token, "token", FALSE), "uniform"))

\* the mesh prim, the last prim of tree, gets its attributes
meshOf(tree, mesh, usdMaterial) == meshAttributes(tree, Len(tree.prims), mesh, usdMaterial)

\* the body of the loop with the Mesh created under 'Materials'
usdzEntry_MeshUnderMaterials(tree, e, refId, usdObj, materials_scope) ==
    meshOf(createChild(materialOf(createChild(tree, materials_scope, materialName(refId),
                                              "Material"),
                                  toRgbNormalized(e.color)),
                       materials_scope, meshName(refId), "Mesh"),
           e.mesh, Len(tree.prims) + 1)

\* the body of meshByColor.forEach in exportUsdz: the material is the prim
\* created first
usdzEntry(tree, e, refId, usdObj, materials_scope) ==
    meshOf(createChild(materialOf(createChild(tree, materials_scope, materialName(refId),
                                              "Material"),
                                  toRgbNormalized(e.color)),
                       usdObj, meshName(refId), "Mesh"),
           e.mesh, Len(tree.prims) + 1)

\* meshByColor.forEach: st = [refId, tree]
RECURSIVE usdzLoop(_, _, _, _)
usdzLoop(meshes, usdObj, materials_scope, st) ==
    IF ~(st.refId < Len(meshes)) THEN st.tree
    ELSE usdzLoop(meshes, usdObj, materials_scope,
                  [refId |-> st.refId + 1,
                   tree |-> usdzEntry(st.tree, meshes[st.refId + 1], st.refId,
                                      usdObj, materials_scope)])

\* 'ar' with its metadata, then 'Materials'
usdzBase ==
    createChild(
        setMetadata(
            setMetadata(createChild([prims |-> <<newUsdPrim("", "")>>, atts |-> <<>>],
                                    ROOT, "ar", "Xform"),
                        ROOT + 1, "assetInfo", [t |-> "object", v |-> <<<<"name", "ar">>>>]),
            ROOT + 1, "kind", [t |-> "string", v |-> "component"]),
        ROOT + 1, "Materials", "Scope")

\* the tree exportUsdz builds: usdObj is the first prim created, and
\* materials_scope the second
exportUsdzTree(meshes) ==
    usdzLoop(meshes, ROOT + 1, ROOT + 2, [refId |-> 0, tree |-> usdzBase])

(***************************************************************************)
(* The mesh sets exportUsdz is run on, next to exportObj and exportGlb: up *)
(* to MaxUsdzColors entries, each the empty mesh, a mesh of MaxVerts       *)
(* positions and MaxFaces faces, or that mesh with a face index out of     *)
(* range or with one normal too many.                                      *)
(***************************************************************************)
MaxUsdzColors == 2

UsdzMeshes ==
    { makeMesh(0, 0, "none"), makeMesh(MaxVerts, MaxFaces, "none"),
      makeMesh(MaxVerts, MaxFaces, "face"), makeMesh(MaxVerts, MaxFaces, "normals") }

UsdzMeshSets(maxColors) ==
    UNION { { [k \in 1..n |-> [color |-> colorOf(k), mesh |-> ms[k]]] :
                ms \in [1..n -> UsdzMeshes] } : n \in 0..maxColors }

UsdzInit ==
    /\ renderables = <<>>
    /\ meshByColor \in UsdzMeshSets(MaxUsdzColors)
    /\ objOut = <<>>
    /\ glbOut = <<>>
    /\ meshPc = "ready"
    /\ usdPrims = <<>>
    /\ usdAtts = <<>>
    /\ crate = newCrateFile
    /\ usdStack = <<>>
    /\ usdWritten = <<>>
    /\ usdPc = "idle"
    /\ crateLog = <<>>

\* exportUsdz up to new CrateFile(): the scene is built; writeUsd and
\* getUsdz run next
ExportUsdz ==
    /\ meshPc = "ready"
    /\ usdPc = "idle"
    /\ usdPrims' = exportUsdzTree(meshByColor).prims
    /\ usdAtts' = exportUsdzTree(meshByColor).atts
    /\ usdPc' = "new"
    /\ meshPc' = "usdz"
    /\ UNCHANGED <<crate, usdStack, usdWritten, crateLog>>
    /\ UNCHANGED <<renderables, meshByColor, objOut, glbOut>>
    /\ UNCHANGED <<lzVars, icVars, zipVars>>

(***************************************************************************)
(* Trees that writeUsd cannot write: those of treeOf with, besides, an     *)
(* attribute of a value type addField does not know ("bad") or a prim with *)
(* the metadata key 'references' (refs is the prim, 0 for none).            *)
(***************************************************************************)
MaxErrNodes == 3

errTreeOf(parents, owners, flavors, refs) ==
    IF refs = 0 THEN treeOf(parents, owners, flavors)
    ELSE setMetadata(treeOf(parents, owners, flavors), refs, "references",
                     [t |-> "string", v |-> "a"])

UsdErrTrees(maxNodes) ==
    UNION { UNION { { errTreeOf(parents, owners, flavors, refs) :
                        parents \in { f \in [1..nP -> 1..(nP + 1)] : \A i \in 1..nP : f[i] <= i },
                        owners \in [1..nA -> 1..(nP + 1)],
                        flavors \in { f \in [1..nA -> {"data", "conn", "rel", "bad"}] :
                                        nA = 1 => f[1] # "conn" },
                        refs \in 0..(nP + 1) } :
                    nA \in 0..(maxNodes - nP) } :
            nP \in 0..maxNodes }

UsdErrInit ==
    /\ \E tree \in UsdErrTrees(MaxErrNodes) :
          /\ usdPrims = tree.prims
          /\ usdAtts = tree.atts
    /\ crate = newCrateFile
    /\ usdStack = <<>>
    /\ usdWritten = <<>>
    /\ usdPc = "new"
    /\ crateLog = <<>>

(***************************************************************************)
(* The methods of a CrateFile called one by one on a new CrateFile: up to  *)
(* MaxCalls calls, each kept in crateLog with its arguments, the value     *)
(* returned, the offsets of the file before and after, and the token table *)
(* before.                                                                 *)
(***************************************************************************)
MaxCalls == 4

CrateTokens == {"a", "f"}

CrateFields == {"f", "g"}

\* two tokens, and sixteen tokens of which the first is a field name
CrateTokenVectors ==
    {<<"a", "b">>,
     <<"f", "t1", "t2", "t3", "t4", "t5", "t6", "t7", "t8", "t9", "t10", "t11", "t12",
       "t13", "t14", "t15">>}

CrateIntArrays == {<<0, 1>>, [i \in 1..16 |-> i - 1]}

CrateInit ==
    /\ usdPrims = <<>>
    /\ usdAtts = <<>>
    /\ crate = newCrateFile
    /\ usdStack = <<>>
    /\ usdWritten = <<>>
    /\ usdPc = "calls"
    /\ crateLog = <<>>

canCall == usdPc = "calls" /\ Len(crateLog) < MaxCalls

\* a call that returned r
callStep(op, field, data, r) ==
    /\ crate' = r.c
    /\ crateLog' = Append(crateLog,
                          [op |-> op, field |-> field, data |-> data, ret |-> r.ret,
                           start |-> tell(crate.file), end |-> tell(r.c.file),
                           tokens |-> crate.tokens])
    /\ UNCHANGED <<usdPrims, usdAtts, usdStack, usdWritten, usdPc>>
    /\ UNCHANGED usdOthers

GetTokenIndex ==
    /\ canCall
    /\ \E token \in CrateTokens :
          callStep("getTokenIndex", token, <<>>, getTokenIndex(crate, token))

AddFieldTokenVector ==
    /\ canCall
    /\ \E field \in CrateFields, tokens \in CrateTokenVectors :
          callStep("addFieldTokenVector", field, tokens,
                   addFieldTokenVector(crate, field, tokens))

AddFieldInts ==
    /\ canCall
    /\ \E field \in CrateFields, data \in CrateIntArrays :
          callStep("addFieldInts", field, data, addFieldInts(crate, field, data))

LzInit ==
    /\ lzSrc \in LzInputs(MaxSrcLen)
    /\ lzOut = <<>>
    /\ lzPc = "ready"

Lz4Compress ==
    /\ lzPc = "ready"
    /\ lzOut' = lz4Compress(lzSrc)
    /\ lzPc' = "done"
    /\ UNCHANGED lzSrc
    /\ UNCHANGED lzOthers

LzIdle ==
    /\ lzSrc = <<>>
    /\ lzOut = <<>>
    /\ lzPc = "idle"

Lz4Start == LzInit /\ IcIdle /\ ZipIdle /\ MeshIdle /\ UsdIdle

SpecLz4 == Lz4Start /\ [][Lz4Compress]_vars

IntStart == IcInit /\ LzIdle /\ ZipIdle /\ MeshIdle /\ UsdIdle

SpecInt == IntStart /\ [][UsdInt32Compress]_vars

ZipNext == ZipWrite \/ GetUsdz

ZipStart == ZipInit /\ LzIdle /\ IcIdle /\ MeshIdle /\ UsdIdle

SpecZip == ZipStart /\ [][ZipNext]_vars

MeshNext == ExportObj \/ ExportGlb

MeshStart == MeshInit /\ LzIdle /\ IcIdle /\ ZipIdle /\ UsdIdle

SpecMesh == MeshStart /\ [][MeshNext]_vars

(***************************************************************************)
(* The scene tree, read apart from the methods: the prims in depth-first   *)
(* pre-order, the ancestors of a prim, the prims and attributes below one. *)
(***************************************************************************)
RECURSIVE preOrder(_, _)
preOrder(prims, p) ==
    <<p>> \o Flatten([i \in 1..Len(prims[p].children) |->
                        preOrder(prims, prims[p].children[i])])

RECURSIVE ancestors(_, _)
ancestors(prims, p) ==
    IF prims[p].parent = NO_OBJECT THEN {}
    ELSE {prims[p].parent} \cup ancestors(prims, prims[p].parent)

subtreeOf(prims, p) == { q \in DOMAIN prims : q = p \/ p \in ancestors(prims, q) }

itemsBelow(tree, p) ==
    Cardinality(subtreeOf(tree.prims, p) \ {p})
        + Cardinality({ a \in DOMAIN tree.atts :
                            tree.atts[a].parent \in subtreeOf(tree.prims, p) })

dfsOrder == preOrder(usdPrims, ROOT)

\* the attributes whose turn in the index pass comes before the k-th prim of
\* the order: those of the prims before it that are no ancestors of it, the
\* root apart
attributesBefore(prims, order, k) ==
    SumSeq([i \in 1..(k - 1) |->
                IF order[i] # ROOT /\ order[i] \notin ancestors(prims, order[k])
                THEN Len(prims[order[i]].attributes) ELSE 0])

\* C6 (amended): after updatePathIndices the root has index 0 and the prims
\* have distinct indices that grow in depth-first pre-order, each attribute
\* passed on the way taking one index too: the k-th prim visited has
\* pathIndex k plus the number of attributes of the prims visited before it
\* that are not its ancestors (the root's attributes are not counted).
C6_PathIndices ==
    usdPc = "indexed" =>
        \A k \in 1..Len(dfsOrder) :
            usdPrims[dfsOrder[k]].pathIndex
                = (k - 1) + attributesBefore(usdPrims, dfsOrder, k)

C6_Witness ==
    /\ usdPc = "indexed"
    /\ Len(dfsOrder) >= 3
    /\ \E k \in 1..Len(dfsOrder) : usdPrims[dfsOrder[k]].pathIndex > k - 1

\* C6 as stated: the k-th prim visited in depth-first pre-order has
\* pathIndex k, the root 0.
C6_Sequential ==
    usdPc = "indexed" =>
        \A k \in 1..Len(dfsOrder) : usdPrims[dfsOrder[k]].pathIndex = k - 1

afterIndexPass == usdPc \in {"indexed", "boot", "body", "sections", "done", "threw"}

hasSiblingOf(prims, p) ==
    /\ prims[p].parent # NO_OBJECT
    /\ \/ prims[prims[p].parent].children[Len(prims[prims[p].parent].children)] # p
       \/ Len(prims[prims[p].parent].attributes) > 0

hasChildOf(prims, p) == Len(prims[p].children) > 0 \/ Len(prims[p].attributes) > 0

jumpOf(tree, item) ==
    IF item.kind = "prim"
    THEN CASE hasSiblingOf(tree.prims, item.id) /\ hasChildOf(tree.prims, item.id) ->
                    itemsBelow(tree, item.id) + 1
           [] hasSiblingOf(tree.prims, item.id) /\ ~hasChildOf(tree.prims, item.id) -> 0
           [] ~hasSiblingOf(tree.prims, item.id) /\ hasChildOf(tree.prims, item.id) -> -1
           [] OTHER -> -2
    ELSE IF /\ tree.atts[item.id].parent # NO_OBJECT
            /\ LET siblings == tree.prims[tree.atts[item.id].parent].attributes
               IN  siblings # <<>> /\ siblings[Len(siblings)] = item.id
         THEN -2 ELSE 0

storedJump(item) ==
    IF item.kind = "prim" THEN usdPrims[item.id].pathJump ELSE usdAtts[item.id].pathJump

\* C8: getPathJump of a prim returns the number of prims and attributes
\* below it plus 1 when it has a sibling and a child, 0 with a sibling only,
\* -1 with a child only, -2 with neither; getPathJump of an attribute returns
\* -2 iff it is the last attribute of its parent, else 0.  The value returned
\* is the jump of the node's path entry and is kept in pathJump.
C8_PathJump ==
    \A i \in 1..Len(crate.paths) :
        i <= Len(usdWritten) =>
            /\ crate.paths[i][3] = jumpOf(usdTree, usdWritten[i])
            /\ storedJump(usdWritten[i]) = jumpOf(usdTree, usdWritten[i])

C8_Witness ==
    /\ usdPc = "done"
    /\ \E i \in 1..Len(crate.paths) :
          /\ usdWritten[i].kind = "prim"
          /\ crate.paths[i][3] >= 3
          /\ crate.paths[i][3]
                > Len(usdPrims[usdWritten[i].id].children)
                    + Len(usdPrims[usdWritten[i].id].attributes) + 1
    /\ \E i \in 1..Len(crate.paths) :
          usdWritten[i].kind = "att" /\ crate.paths[i][3] = -2

\* the payload of a rep: its low four bytes
repPayload(rep) == LeUnsigned(SubSeq(rep, 1, 4))

tokensAfter(i) == IF i = Len(crateLog) THEN crate.tokens ELSE crateLog[i + 1].tokens

isArrayCall(call) == call.op \in {"addFieldTokenVector", "addFieldInts"}

sameArray(call, earlier) ==
    isArrayCall(call) /\ earlier.op = call.op /\ earlier.data = call.data

\* C9 (amended): the token table never holds a duplicate, and getTokenIndex
\* of a string already in it returns the index it has there and leaves the
\* table as it is; addFieldTokenVector / addFieldInts called with an array
\* element-wise equal to one already written by the same method write no
\* bytes and return the index of a field whose rep holds the earlier file
\* offset (the index returned before, when the field name is the same too).
C9_Interning ==
    /\ \A i, j \in 1..Len(crate.tokens) : crate.tokens[i] = crate.tokens[j] => i = j
    /\ \A i \in 1..Len(crateLog) :
          /\ crateLog[i].op = "getTokenIndex" =>
                \A k \in 1..Len(crateLog[i].tokens) :
                    crateLog[i].tokens[k] = crateLog[i].field =>
                        /\ crateLog[i].ret = k - 1
                        /\ tokensAfter(i) = crateLog[i].tokens
          /\ \A j \in 1..(i - 1) :
                /\ (/\ crateLog[i].op = "getTokenIndex"
                    /\ crateLog[j].op = "getTokenIndex"
                    /\ crateLog[j].field = crateLog[i].field)
                        => crateLog[i].ret = crateLog[j].ret
                /\ sameArray(crateLog[i], crateLog[j]) =>
                      /\ crateLog[i].end = crateLog[i].start
                      /\ repPayload(crate.reps[crateLog[i].ret + 1])
                            = repPayload(crate.reps[crateLog[j].ret + 1])
                      /\ crateLog[j].end > crateLog[j].start =>
                            repPayload(crate.reps[crateLog[i].ret + 1]) = crateLog[j].start
                      /\ crateLog[j].field = crateLog[i].field =>
                            crateLog[i].ret = crateLog[j].ret

C9_Witness ==
    /\ \E i \in 1..Len(crateLog) : \E j \in 1..(i - 1) :
          /\ sameArray(crateLog[i], crateLog[j])
          /\ crateLog[j].end > crateLog[j].start
          /\ crateLog[i].ret # crateLog[j].start
          /\ crateLog[i].field # crateLog[j].field
    /\ \E i \in 1..Len(crateLog) : \E j \in 1..(i - 1) :
          /\ crateLog[i].op = "getTokenIndex"
          /\ crateLog[j].op = "getTokenIndex"
          /\ crateLog[j].field = crateLog[i].field

\* C9 as stated: getTokenIndex of a string seen before returns the earlier
\* index and leaves the token table unchanged, and addFieldTokenVector /
\* addFieldInts called with an array equal to one already written return
\* the earlier file offset and write no new bytes.
C9_ReturnsOffset ==
    \A i \in 1..Len(crateLog) : \A j \in 1..(i - 1) :
        /\ (/\ crateLog[i].op = "getTokenIndex"
            /\ crateLog[j].op = "getTokenIndex"
            /\ crateLog[j].field = crateLog[i].field)
                => /\ crateLog[i].ret = crateLog[j].ret
                   /\ tokensAfter(i) = crateLog[i].tokens
        /\ (sameArray(crateLog[i], crateLog[j]) /\ crateLog[j].end > crateLog[j].start) =>
              /\ crateLog[i].end = crateLog[i].start
              /\ crateLog[i].ret = crateLog[j].start

\* the name a written node goes by in the paths table and its token
nameOf(item) ==
    IF item.kind = "att" THEN usdAtts[item.id].name
    ELSE IF item.id = ROOT THEN "" ELSE usdPrims[item.id].name

tokenOf(item) == crate.tokenMap[nameOf(item)]

hasReferences ==
    \E p \in (ROOT + 1)..Len(usdPrims) :
        \E i \in 1..Len(usdPrims[p].metadata) : usdPrims[p].metadata[i][1] = "references"

\* a plain attribute of a prim below the root has a value, of a value type
\* that is none of the eight
hasUnknownType ==
    \E a \in 1..Len(usdAtts) :
        /\ usdAtts[a].parent # ROOT
        /\ usdAtts[a].value.kind = "data"
        /\ usdAtts[a].valueType \notin {VT_token, VT_Specifier, VT_int, VT_float, VT_vec3f,
                                         VT_bool, VT_Variability, VT_Dictionary}

C12_MalformedRejected ==
    ~meshSetIsWellFormed(meshByColor) =>
        /\ objOut = <<>>
        /\ glbOut = <<>>
        /\ zipOut = <<>>
        /\ usdPc \in {"idle", "threw"}

(***************************************************************************)
(* C13: the layout of the sections and of the table of contents            *)
(***************************************************************************)
sectionNames == <<"TOKENS", "STRINGS", "FIELDS", "FIELDSETS", "PATHS", "SPECS">>

\* the bytes of the Crate file
usdcBytes(c) == Flatten(getBuffers(c.file))

\* the 8-byte little-endian integer at offset p
usdcUint64(bytes, p) == LeUnsigned(SubSeq(bytes, p + 1, p + 8))

\* the number each section begins with: the length of its table
sectionCounts(c) ==
    <<Len(c.tokens), Len(c.strings), Len(c.fields), Len(c.fsets), Len(c.paths),
      Len(c.specs)>>

\* writeSections took the file from `before` to `after`: six entries in
\* order, the first starting where the value data ended, each starting where
\* the one before it ended and where the file holds the count of its table
sectionsLaid(before, after) ==
    /\ before.toc = <<>>
    /\ Len(after.toc) = 6
    /\ \A k \in 1..6 :
          /\ after.toc[k][1] = sectionNames[k]
          /\ after.toc[k][3] >= 8
          /\ usdcUint64(usdcBytes(after), after.toc[k][2]) = sectionCounts(after)[k]
    /\ after.toc[1][2] = tell(before.file)
    /\ \A k \in 1..5 : after.toc[k + 1][2] = after.toc[k][2] + after.toc[k][3]
    /\ after.toc[6][2] + after.toc[6][3] = tell(after.file)
    /\ Len(usdcBytes(after)) = tell(after.file)

\* the 32 bytes of entry k of the table of contents that begins at tocStart
tocEntryBytes(bytes, tocStart, k) ==
    SubSeq(bytes, tocStart + 8 + 32 * (k - 1) + 1, tocStart + 8 + 32 * k)

\* writeTableOfContents took the file from `before` to `after`: the block
\* begins where SPECS ended, holds the six entries as recorded, and its
\* offset is at bytes 16..23
tocLaid(before, after) ==
    /\ after.toc = before.toc
    /\ tell(before.file) = before.toc[6][2] + before.toc[6][3]
    /\ usdcUint64(usdcBytes(after), tell(before.file)) = 6
    /\ \A k \in 1..6 :
          LET e == tocEntryBytes(usdcBytes(after), tell(before.file), k)
              name == Chars(sectionNames[k])
          IN  /\ SubSeq(e, 1, 16) = name \o Zeros(16 - Len(name))
              /\ usdcUint64(e, 16) = after.toc[k][2]
              /\ usdcUint64(e, 24) = after.toc[k][3]
    /\ Len(usdcBytes(after)) = tell(before.file) + 8 + 32 * 6
    /\ usdcUint64(usdcBytes(after), 16) = tell(before.file)

\* C13: writeSections emits TOKENS, STRINGS, FIELDS, FIELDSETS, PATHS, SPECS
\* in this order after the value data, each entry of the table of contents
\* holds the start and size of its section, the sections are contiguous, the
\* table begins where SPECS ends, and bytes 16..23 of the file, in the Crate
\* and in the archive returned, hold the offset of the table.
C13_SectionLayout ==
    [][/\ (usdPc = "body" /\ usdPc' = "sections") => sectionsLaid(crate, crate')
       /\ (usdPc = "sections" /\ usdPc' = "done") => tocLaid(crate, crate')
       /\ (usdPc = "done" /\ usdPc' = "returned") =>
              usdcUint64(zipOut', zipPayloadOffset' + 16)
                 = crate.toc[6][2] + crate.toc[6][3]]_vars

\* a Crate with value data before TOKENS has been written and returned
C13_Witness ==
    /\ usdPc = "returned"
    /\ Len(crate.toc) = 6
    /\ crate.toc[1][2] > tell(writeBootstrap(newCrateFile).file)
    /\ usdcUint64(usdcBytes(crate), 16) = crate.toc[6][2] + crate.toc[6][3]
    /\ zipOut # <<>>

(***************************************************************************)
(* C14: the path indices held by connections and relationships, read back  *)
(* from the tables and the bytes of the Crate                              *)
(***************************************************************************)
\* the field indices of the field set that begins at fsets[start], up to
\* the -1 that ends it
RECURSIVE fieldSetAt(_, _)
fieldSetAt(c, start) ==
    IF start >= Len(c.fsets) \/ c.fsets[start + 1] = -1 THEN <<>>
    ELSE <<c.fsets[start + 1]>> \o fieldSetAt(c, start + 1)

\* the payloads of the fields called name in the spec of path index path
payloadsOf(c, path, name) ==
    LET fset == fieldSetAt(c, c.specs[path + 1][2])
    IN  { LeUnsigned(SubSeq(c.reps[fset[i] + 1], 1, 4)) :
            i \in { j \in 1..Len(fset) : c.tokens[c.fields[fset[j] + 1] + 1] = name } }

\* the path index of a path list written at offset ref: the op 3, the
\* count 1 on 8 bytes, the index on 4 bytes
pathListOpAt(bytes, ref) ==
    IF bytes[ref + 1] = 3 /\ usdcUint64(bytes, ref + 1) = 1
    THEN LeUnsigned(SubSeq(bytes, ref + 10, ref + 13)) ELSE -1

\* the path index of a path vector written at offset ref: the count 1 on 8
\* bytes, the index on 4 bytes
pathVectorAt(bytes, ref) ==
    IF usdcUint64(bytes, ref) = 1
    THEN LeUnsigned(SubSeq(bytes, ref + 9, ref + 12)) ELSE -1

\* the name of the entry of path index path in the paths table
pathNameOf(c, path) ==
    LET token == c.paths[path + 1][2]
    IN  c.tokens[(IF token < 0 THEN 0 - token ELSE token) + 1]

\* the spec of path index `path` holds, in its fields listName and
\* vectorName, the path index `target`, and nothing else
refersTo(c, bytes, path, listName, vectorName, target) ==
    /\ { pathListOpAt(bytes, ref) : ref \in payloadsOf(c, path, listName) } = {target}
    /\ { pathVectorAt(bytes, ref) : ref \in payloadsOf(c, path, vectorName) } = {target}

\* the paths table and the specs table hold, at path index path, the entry
\* of a node called name of spec type sType
entryIs(c, path, name, sType) ==
    /\ path + 1 \in 1..Len(c.paths)
    /\ c.paths[path + 1][1] = path
    /\ c.specs[path + 1][1] = path
    /\ c.specs[path + 1][3] = sType
    /\ pathNameOf(c, path) = name

\* C14: in the Crate written by exportUsdz, the outputs:surface connection
\* of each Material k<id> holds, in connectionPaths and connectionChildren,
\* the path index of the entry of the outputs:surface attribute of its own
\* surfaceShader, and the material:binding relationship of each Mesh m<id>
\* holds, in targetPaths and targetChildren, the path index of the entry of
\* the Material k<id> of the same id.
C14_CrossReferences ==
    (meshPc = "usdz" /\ usdPc \in {"sections", "done", "returned"}) =>
        \A a \in 1..Len(usdAtts) :
            LET att == usdAtts[a]
                owner == usdPrims[att.parent]
                bytes == usdcBytes(crate)
            IN  /\ isConnection(att) =>
                      LET shader == usdPrims[owner.children[1]]
                          target == usdAtts[att.value.id]
                      IN  /\ entryIs(crate, owner.pathIndex, owner.name, SpecPrim)
                          /\ entryIs(crate, shader.pathIndex, "surfaceShader", SpecPrim)
                          /\ shader.pathIndex = owner.pathIndex + 1
                          /\ target.parent = owner.children[1]
                          /\ target.pathIndex \in (shader.pathIndex + 1)..(att.pathIndex - 1)
                          /\ entryIs(crate, target.pathIndex, "outputs:surface", SpecAttribute)
                          /\ entryIs(crate, att.pathIndex, "outputs:surface", SpecAttribute)
                          /\ refersTo(crate, bytes, att.pathIndex, "connectionPaths",
                                      "connectionChildren", target.pathIndex)
                /\ isRelationship(att) =>
                      LET target == usdPrims[att.value.id]
                      IN  /\ \E id \in 1..Len(meshByColor) :
                                /\ owner.name = meshName(id - 1)
                                /\ target.name = materialName(id - 1)
                          /\ entryIs(crate, owner.pathIndex, owner.name, SpecPrim)
                          /\ entryIs(crate, target.pathIndex, target.name, SpecPrim)
                          /\ entryIs(crate, att.pathIndex, "material:binding",
                                     SpecRelationship)
                          /\ refersTo(crate, bytes, att.pathIndex, "targetPaths",
                                      "targetChildren", target.pathIndex)

\* the Crate of a set of two colors is written: the second Mesh is bound to
\* the second Material
C14_Witness ==
    /\ meshPc = "usdz"
    /\ usdPc = "returned"
    /\ Len(meshByColor) = 2
    /\ \E a \in 1..Len(usdAtts) :
          /\ isRelationship(usdAtts[a])
          /\ usdPrims[usdAtts[a].parent].name = meshName(1)
          /\ refersTo(crate, usdcBytes(crate), usdAtts[a].pathIndex, "targetPaths",
                      "targetChildren", usdPrims[usdAtts[a].value.id].pathIndex)
          /\ usdPrims[usdAtts[a].value.id].pathIndex > 0

(***************************************************************************)
(* C15: the shape of the tree of exportUsdz and the sizes of the tables    *)
(***************************************************************************)
\* the value of the attribute called name of prim p
valueOfAttribute(p, name) ==
    { usdAtts[a].value : a \in { b \in 1..Len(usdAtts) :
                                    usdAtts[b].parent = p /\ usdAtts[b].name = name } }

\* the number of specs of type sType
specCount(c, sType) == Cardinality({ k \in 1..Len(c.specs) : c.specs[k][3] = sType })

\* the tree built from a map of n entries
usdzTreeShape(n) ==
    /\ Len(usdPrims) = 3 + 3 * n
    /\ Len(usdAtts) = 12 * n
    /\ Len(usdPrims[ROOT].children) = 1
    /\ usdPrims[ROOT].attributes = <<>>
    /\ LET ar == usdPrims[usdPrims[ROOT].children[1]]
           materials == usdPrims[ar.children[1]]
       IN  /\ ar.name = "ar"
           /\ ar.attributes = <<>>
           /\ Len(ar.children) = 1 + n
           /\ materials.name = "Materials"
           /\ materials.attributes = <<>>
           /\ Len(materials.children) = n
           /\ \A i \in 1..n :
                 LET k == usdPrims[materials.children[i]]
                     m == usdPrims[ar.children[1 + i]]
                     shader == usdPrims[k.children[1]]
                 IN  /\ k.name = materialName(i - 1)
                     /\ k.classType = "Material"
                     /\ Len(k.children) = 1
                     /\ Len(k.attributes) = 1
                     /\ isConnection(usdAtts[k.attributes[1]])
                     /\ shader.name = "surfaceShader"
                     /\ shader.children = <<>>
                     /\ Len(shader.attributes) = 4
                     /\ valueOfAttribute(k.children[1], "inputs:diffuseColor")
                           = {[kind |-> "data", v |-> toRgbNormalized(meshByColor[i].color)]}
                     /\ m.name = meshName(i - 1)
                     /\ m.classType = "Mesh"
                     /\ m.children = <<>>
                     /\ Len(m.attributes) = 7
                     /\ valueOfAttribute(ar.children[1 + i], "faceVertexIndices")
                           = {[kind |-> "data", v |-> meshByColor[i].mesh.faces]}
                     /\ valueOfAttribute(ar.children[1 + i], "material:binding")
                           = {[kind |-> "prim", id |-> materials.children[i]]}

\* C15: for a map of N entries the tree of exportUsdz is the root, 'ar',
\* 'Materials' with the Materials k0..k(N-1) in the order of the map (each
\* with one connection and a surfaceShader of 4 attributes) and, after
\* 'Materials' under 'ar', the Meshes m0..m(N-1) of 7 attributes; once the
\* tree is written the specs and the paths tables have 3 + 15N entries:
\* 1 PseudoRoot, 2 + 3N Prim, N Relationship and 11N Attribute specs.
C15_TreeAndTableSizes ==
    (meshPc = "usdz") =>
        /\ usdzTreeShape(Len(meshByColor))
        /\ usdPc \in {"sections", "done", "returned"} =>
              /\ Len(crate.specs) = 3 + 15 * Len(meshByColor)
              /\ Len(crate.paths) = 3 + 15 * Len(meshByColor)
              /\ specCount(crate, SpecPseudoRoot) = 1
              /\ specCount(crate, SpecPrim) = 2 + 3 * Len(meshByColor)
              /\ specCount(crate, SpecRelationship) = Len(meshByColor)
              /\ specCount(crate, SpecAttribute) = 11 * Len(meshByColor)

\* the tree of a map of two entries is written: 33 specs
C15_Witness ==
    /\ meshPc = "usdz"
    /\ usdPc = "returned"
    /\ Len(meshByColor) = 2
    /\ Len(crate.specs) = 33
    /\ specCount(crate, SpecAttribute) = 22

(***************************************************************************)
(* C16: the size of the bootstrap                                          *)
(***************************************************************************)
\* the file offsets held by the reps that are not inline: the places of
\* the value data
valueOffsets(c) ==
    { LeUnsigned(SubSeq(c.reps[i], 1, 4)) :
        i \in { j \in 1..Len(c.reps) : (c.reps[j][8] \div 64) % 2 = 0 } }

\* C16 as stated: after writeBootstrap the write position is 96.
C16_Bootstrap96 ==
    usdPc = "boot" => tell(crate.file) = 96

\* C16, amended: the bootstrap occupies 88 bytes (8 of magic, 8 of version,
\* 8 of table offset, 64 reserved): after writeBootstrap the write position
\* is 88, the first value block starts at offset 88, and TOKENS starts at
\* 88 when there is no value data.
C16_Bootstrap88 ==
    /\ usdPc = "boot" =>
          /\ tell(crate.file) = 88
          /\ usdcBytes(crate) = <<80, 88, 82, 45, 85, 83, 68, 67>>
                                   \o <<0, 7, 0, 0, 0, 0, 0, 0>> \o Zeros(8) \o Zeros(64)
    /\ usdPc \in {"body", "sections", "done", "returned", "threw"} =>
          /\ tell(crate.file) >= 88
          /\ \A ref \in valueOffsets(crate) : ref >= 88
          /\ valueOffsets(crate) # {} => 88 \in valueOffsets(crate)
    /\ usdPc \in {"sections", "done", "returned"} =>
          /\ crate.toc[1][2] >= 88
          /\ valueOffsets(crate) = {} => crate.toc[1][2] = 88

\* a Crate whose first value block is at offset 88 has got its sections
C16_Witness ==
    /\ usdPc = "sections"
    /\ 88 \in valueOffsets(crate)
    /\ crate.toc[1][2] > 88

(***************************************************************************)
(* C17: the common value of usdInt32Compress                               *)
(***************************************************************************)
\* the difference v[i] - v[i-1] of the i-th value (1-based), v[-1] = 0, not
\* wrapped
deltaAt(values, i) == NumSub(Num(values[i]), Num(IF i = 1 THEN 0 ELSE values[i - 1]))

\* how often the difference d occurs
occurrences(values, d) == Cardinality({ i \in 1..Len(values) : deltaAt(values, i) = d })

\* d occurs most often, and is the largest of the differences that do
isMostCommon(values, d) ==
    /\ occurrences(values, d) > 0
    /\ \A j \in 1..Len(values) :
          \/ occurrences(values, deltaAt(values, j)) < occurrences(values, d)
          \/ /\ occurrences(values, deltaAt(values, j)) = occurrences(values, d)
             /\ ~NumGt(deltaAt(values, j), d)

\* the first 4 bytes of the coded stream, as a signed integer
writtenCommon == LeSigned(SubSeq(icOut, 1, 4))

\* C17 as stated: the common value written in the first 4 bytes is the
\* difference that occurs most often, the largest one on a tie.
C17_CommonIsDelta ==
    (icPc = "done" /\ icValues # <<>>) =>
        \E i \in 1..Len(icValues) :
            /\ isMostCommon(icValues, deltaAt(icValues, i))
            /\ Num(writtenCommon) = deltaAt(icValues, i)

\* C17, amended: the first 4 bytes hold the low 32 bits, two's complement,
\* of the difference (not wrapped) that occurs most often, the largest one
\* on a tie, whatever the order of the differences; they read as that
\* difference when it is within the signed 32-bit range.
C17_CommonIsDeltaLow32 ==
    (icPc = "done" /\ icValues # <<>>) =>
        \E i \in 1..Len(icValues) :
            LET d == deltaAt(icValues, i)
            IN  /\ isMostCommon(icValues, d)
                /\ SubSeq(icOut, 1, 4) = LeBytes(ToInt32(d), 4)
                /\ (d.hi >= -HALF_WORD /\ d.hi < HALF_WORD) => Num(writtenCommon) = d

\* a tie between the first difference and a larger one met later: the
\* later one is written
C17_Witness ==
    /\ icPc = "done"
    /\ Len(icValues) >= 2
    /\ \E i \in 2..Len(icValues) :
          /\ isMostCommon(icValues, deltaAt(icValues, i))
          /\ occurrences(icValues, deltaAt(icValues, 1))
                = occurrences(icValues, deltaAt(icValues, i))
          /\ NumGt(deltaAt(icValues, i), deltaAt(icValues, 1))
          /\ Num(writtenCommon) = deltaAt(icValues, i)

(***************************************************************************)
(* C18: the bytes at the end of the input that no match covers             *)
(***************************************************************************)
\* the match sequences of the block of lzSrc: a match covers the source
\* indices srcPtr .. srcPtr + length - 1 (0-based)
lzMatches == lz4Run(lzSrc).seqs

\* the last n bytes of the block are the last n bytes of the input, and no
\* match covers any of them
lastBytesLiteral(n) ==
    /\ \A k \in 1..Len(lzMatches) :
          lzMatches[k].srcPtr + lzMatches[k].length <= Len(lzSrc) - n
    /\ SubSeq(lzOut, Len(lzOut) - Min(n, Len(lzSrc)) + 1, Len(lzOut))
          = SubSeq(lzSrc, Len(lzSrc) - Min(n, Len(lzSrc)) + 1, Len(lzSrc))

\* C18 as stated: no match sequence covers any of the final 12 input bytes.
C18_Last12Literal ==
    lzPc = "done" => lastBytesLiteral(MFLIMIT)

\* C18, amended: no match sequence covers any of the final 11 input bytes
\* (all of the input when it is shorter), which end the block as literals;
\* a match starts before index len - 12 and may cover the byte at index
\* len - 12.
C18_Last11Literal ==
    lzPc = "done" =>
        /\ lastBytesLiteral(MFLIMIT - 1)
        /\ \A k \in 1..Len(lzMatches) : lzMatches[k].srcPtr < Len(lzSrc) - MFLIMIT
        /\ Len(lzSrc) < MFLIMIT + 1 => lzMatches = <<>>

\* a block whose last match covers the byte at index len - 12
C18_Witness ==
    /\ lzPc = "done"
    /\ lzMatches # <<>>
    /\ lzMatches[Len(lzMatches)].srcPtr + lzMatches[Len(lzMatches)].length
          = Len(lzSrc) - MFLIMIT + 1
    /\ lz4Decode(Tail(lzOut)) = lzSrc

(***************************************************************************)
(* C20: addFieldItem on its own: up to MaxItems calls on a new CrateFile,  *)
(* with token indices below and from 256 on, three value types, every      *)
(* choice of the flags, and two payloads.                                  *)
(***************************************************************************)
MaxItems == 2

FieldIndices == {0, 4, 255, 256, 260}

ItemPayloads == {1, 100}

ItemTypes == {VT_token, VT_bool, VT_Variability}

FieldItemInit ==
    /\ usdPrims = <<>>
    /\ usdAtts = <<>>
    /\ crate = newCrateFile
    /\ usdStack = <<>>
    /\ usdWritten = <<>>
    /\ usdPc = "items"
    /\ crateLog = <<>>

AddFieldItem ==
    /\ usdPc = "items"
    /\ Len(crateLog) < MaxItems
    /\ \E field \in FieldIndices, vType \in ItemTypes,
          array \in BOOLEAN, inline \in BOOLEAN, compressed \in BOOLEAN,
          payload \in ItemPayloads :
          /\ crate' = addFieldItem(crate, field, vType, array, inline, compressed,
                                   payload).c
          /\ crateLog' = Append(crateLog,
                                [field |-> field, vType |-> vType, array |-> array,
                                 inline |-> inline, compressed |-> compressed,
                                 payload |-> payload,
                                 ret |-> addFieldItem(crate, field, vType, array, inline,
                                                      compressed, payload).ret])
    /\ UNCHANGED <<usdPrims, usdAtts, usdStack, usdWritten, usdPc>>
    /\ UNCHANGED usdOthers

\* what the key is made of: the token index, the flags and the payload
keyParts(call) == <<call.field, call.array, call.inline, call.compressed, call.payload>>

\* C20: two calls of addFieldItem whose field token index, flags or payload
\* differ have different keys, so they never get the same field slot.
C20_KeysCollisionFree ==
    usdPc = "items" =>
        \A i, j \in 1..Len(crateLog) :
            keyParts(crateLog[i]) # keyParts(crateLog[j]) =>
                /\ repKey(crateLog[i].field, crateLog[i].array, crateLog[i].inline,
                          crateLog[i].compressed, crateLog[i].payload)
                     # repKey(crateLog[j].field, crateLog[j].array, crateLog[j].inline,
                              crateLog[j].compressed, crateLog[j].payload)
                /\ crateLog[i].ret # crateLog[j].ret

(***************************************************************************)
(* C21: the groups of the fieldSets table                                  *)
(***************************************************************************)
\* the positions (1-based) of the sentinels of a fieldSets table
sentinelsOf(fsets) == { k \in 1..Len(fsets) : fsets[k] = -1 }

\* fset (0-based) is where a group starts: position 0 or just after a -1
startsGroup(fsets, fset) ==
    /\ fset \in 0..(Len(fsets) - 1)
    /\ fset = 0 \/ fsets[fset] = -1

\* the table is made of groups, one per spec, each ended by one -1
groupedFieldSets(c) ==
    /\ Cardinality(sentinelsOf(c.fsets)) = Len(c.specs)
    /\ c.fsets # <<>> => c.fsets[Len(c.fsets)] = -1
    /\ \A s \in 1..Len(c.specs) :
          /\ startsGroup(c.fsets, c.specs[s][2])
          /\ Cardinality({ k \in sentinelsOf(c.fsets) : k <= c.specs[s][2] }) = s - 1
    /\ \A k \in 1..Len(c.fsets) :
          c.fsets[k] # -1 => /\ c.fsets[k] \in 0..(Len(c.fields) - 1)
                             /\ c.fsets[k] \in 0..(Len(c.reps) - 1)

\* C21: at every point of writeUsd the fieldSets table is a concatenation
\* of groups each ended by one -1: as many -1 entries as specs, the
\* fieldSetIndex of the s-th spec is the start of the s-th group, every
\* other entry is an index into the fields table; and a write leaves the
\* entries already there as they are.
C21_FieldSetGroups ==
    /\ [](usdPc # "idle" => groupedFieldSets(crate))
    /\ [][/\ Len(crate.fsets) <= Len(crate'.fsets)
          /\ SubSeq(crate'.fsets, 1, Len(crate.fsets)) = crate.fsets
          /\ Len(crate.specs) <= Len(crate'.specs)
          /\ SubSeq(crate'.specs, 1, Len(crate.specs)) = crate.specs]_vars

\* a tree written to its end with five specs, one of them with a group of
\* three fields that starts after a sentinel
C21_Witness ==
    /\ usdPc = "done"
    /\ Len(crate.specs) = 5
    /\ \E s \in 2..Len(crate.specs) :
          /\ crate.fsets[crate.specs[s][2] + 1] # -1
          /\ crate.fsets[crate.specs[s][2] + 2] # -1
          /\ crate.fsets[crate.specs[s][2] + 3] # -1
          /\ crate.fsets[crate.specs[s][2] + 4] = -1

(***************************************************************************)
(* C22: the sizes, counts and offsets recorded in the archive              *)
(***************************************************************************)
\* where the central directory and the end record start in zipOut (0-based)
zipCentralDir == zipPayloadOffset + zipFile.pos

zipEndRecord == zipCentralDir + 46 + zipUint16(zipOut, zipCentralDir + 28)

\* the positions (0-based) of zipOut outside the payload where the four
\* bytes of a signature stand
signaturesAt(sig) ==
    { p \in (0..(zipPayloadOffset - 4)) \cup (zipCentralDir..(Len(zipOut) - 4)) :
        SubSeq(zipOut, p + 1, p + 4) = sig }

\* C22: in the archive returned by getUsdzFromUsdc both sizes of the local
\* header and of the central directory entry are the payload length, the
\* end record counts one entry on this disk and one in total, the central
\* directory holds one entry, the offset stored in the end record is where
\* the central directory signature stands, which is the local header length
\* plus the payload length, and the archive is 54 + 22 bytes longer.
C22_ArchiveRecords ==
    zipPc = "done" =>
        /\ zipUint32(zipOut, 18) = zipFile.pos
        /\ zipUint32(zipOut, 22) = zipFile.pos
        /\ zipUint32(zipOut, zipCentralDir + 20) = zipFile.pos
        /\ zipUint32(zipOut, zipCentralDir + 24) = zipFile.pos
        /\ zipUint16(zipOut, zipEndRecord + 8) = 1
        /\ zipUint16(zipOut, zipEndRecord + 10) = 1
        /\ signaturesAt(<<80, 75, 1, 2>>) = {zipCentralDir}
        /\ signaturesAt(<<80, 75, 5, 6>>) = {zipEndRecord}
        /\ zipUint32(zipOut, zipEndRecord + 12) = zipEndRecord - zipCentralDir
        /\ zipUint32(zipOut, zipEndRecord + 16) = zipCentralDir
        /\ zipCentralDir = Len(zipPre(zipFile.pos)) + zipFile.pos
        /\ zipEndRecord = zipCentralDir + 54
        /\ Len(zipOut) = zipCentralDir + 54 + 22

\* an archive of a payload of two blocks, longer than the local header
C22_Witness ==
    /\ zipPc = "done"
    /\ Len(zipFile.buffers) = 2
    /\ zipFile.pos = 67
    /\ zipUint32(zipOut, zipEndRecord + 16) = 131
    /\ Len(zipOut) = 207

(***************************************************************************)
(* C23: the tables of the manifest exportGlb builds                        *)
(***************************************************************************)
\* the array of the manifest under a key, and the integer under a key of
\* an object of the manifest
gltfArray(key) == jGet(glbOut.gltf, key).v

gltfInt(obj, key) == jGet(obj, key).v.v

gltfPrimitives == jGet(gltfArray("meshes")[1], "primitives").v

\* the sum of the byteLength of the first k bufferViews
RECURSIVE viewBytes(_)
viewBytes(k) ==
    IF k = 0 THEN 0
    ELSE viewBytes(k - 1) + gltfInt(gltfArray("bufferViews")[k], "byteLength")

\* C23: for a mesh set with N colors the manifest has one mesh with N
\* primitives, 3N accessors, 3N bufferViews and N materials; primitive i
\* uses accessor 3i for indices, 3i + 1 for POSITION, 3i + 2 for NORMAL and
\* material i; accessor k refers to bufferView k; the first bufferView
\* starts at byte 0, each next one where the one before it ends, and the
\* byteLengths add up to the byteLength of the buffer.
C23_GltfTables ==
    meshPc = "glb" =>
        LET N == Len(meshByColor) IN
        /\ Len(gltfArray("meshes")) = 1
        /\ Len(gltfPrimitives) = N
        /\ Len(gltfArray("accessors")) = 3 * N
        /\ Len(gltfArray("bufferViews")) = 3 * N
        /\ Len(gltfArray("materials")) = N
        /\ \A i \in 0..(N - 1) :
              /\ gltfInt(gltfPrimitives[i + 1], "indices") = 3 * i
              /\ gltfInt(jGet(gltfPrimitives[i + 1], "attributes"), "POSITION") = 3 * i + 1
              /\ gltfInt(jGet(gltfPrimitives[i + 1], "attributes"), "NORMAL") = 3 * i + 2
              /\ gltfInt(gltfPrimitives[i + 1], "material") = i
        /\ \A k \in 0..(3 * N - 1) :
              /\ gltfInt(gltfArray("accessors")[k + 1], "bufferView") = k
              /\ gltfInt(gltfArray("bufferViews")[k + 1], "buffer") = 0
              /\ gltfInt(gltfArray("bufferViews")[k + 1], "byteOffset") = viewBytes(k)
              /\ gltfInt(gltfArray("bufferViews")[k + 1], "byteLength") >= 0
        /\ Len(gltfArray("buffers")) = 1
        /\ viewBytes(3 * N) = gltfInt(gltfArray("buffers")[1], "byteLength")
        /\ viewBytes(3 * N) = Len(glbOut.bin)

\* a manifest of two meshes with faces: six bufferViews, the fourth of
\* which starts after the 12 + 36 + 36 bytes of the first mesh
C23_Witness ==
    /\ meshPc = "glb"
    /\ Len(meshByColor) = 2
    /\ Len(meshByColor[1].mesh.positions) = 3
    /\ Len(meshByColor[1].mesh.faces) = 3
    /\ Len(meshByColor[2].mesh.faces) = 3
    /\ Len(gltfArray("bufferViews")) = 6
    /\ gltfInt(gltfArray("bufferViews")[4], "byteOffset") = 84
    /\ gltfInt(gltfPrimitives[2], "indices") = 3

(***************************************************************************)
(* create3DModel: the loop that groups the meshes of the scene by color    *)
(* and leaves out the vertices no drawn face uses.  The values of a        *)
(* renderable are kept under their names; aPosition and aNormal are flat   *)
(* arrays of coordinates, tColor a flat array of channels.  The instance   *)
(* transforms of the model are translations, kept as their vectors, so     *)
(* that Mat3.directionTransform is the identity; the normals are along an  *)
(* axis with integer length, so that 1 / Math.sqrt is exact.               *)
(***************************************************************************)
\* Vec3.fromArray and Color.fromArray
fromArray(array, offset) == <<array[offset + 1], array[offset + 2], array[offset + 3]>>

colorFromArray(array, offset) ==
    [r |-> array[offset + 1], g |-> array[offset + 2], b |-> array[offset + 3]]

squaredMagnitude(v) == v[1] * v[1] + v[2] * v[2] + v[3] * v[3]

\* normalizeIfNecessary on a vector along an axis
normalizeIfNecessary(v) ==
    IF squaredMagnitude(v) # 1
    THEN LET m == CHOOSE m \in 1..squaredMagnitude(v) : m * m = squaredMagnitude(v)
         IN  <<v[1] \div m, v[2] \div m, v[3] \div m>>
    ELSE v

isIdentity(transform) == transform = <<0, 0, 0>>

transformMat4(position, transform) ==
    <<position[1] + transform[1], position[2] + transform[2], position[3] + transform[3]>>

\* meshByColor.get(color): the place of the entry of the color, 0 for
\* undefined
meshIndexOf(meshes, color) ==
    IF \E k \in 1..Len(meshes) : meshes[k].color = color
    THEN CHOOSE k \in 1..Len(meshes) : meshes[k].color = color
    ELSE 0

\* the map after  if (mesh === undefined) { mesh = {...}; meshByColor.set(color, mesh) }
withMeshFor(meshes, color) ==
    IF meshIndexOf(meshes, color) = 0
    THEN Append(meshes, [color |-> color,
                         mesh |-> [positions |-> <<>>, normals |-> <<>>, faces |-> <<>>]])
    ELSE meshes

\* the vertex vi taken into the mesh k under the index it has in the scene
mapVertex_IndexKept(values, transform, k, vi, st) ==
    IF vi \in DOMAIN st.vMap
    THEN [st EXCEPT !.meshes[k].mesh.faces = Append(@, vi)]
    ELSE [st EXCEPT !.vMap = (vi :> vi) @@ @,
                    !.meshes[k].mesh.positions =
                        Append(@, fromArray(values.aPosition, vi * 3)),
                    !.meshes[k].mesh.normals =
                        Append(@, normalizeIfNecessary(fromArray(values.aNormal, vi * 3))),
                    !.meshes[k].mesh.faces = Append(@, vi)]

\* the body of the loop over the vertices of the drawn faces, the same in
\* both branches: vi2 is the index the vertex vi has in the mesh k, a new
\* one (with the position and the normal pushed) when vMap has none
mapVertex(values, transform, k, vi, st) ==
    IF vi \in DOMAIN st.vMap
    THEN [st EXCEPT !.meshes[k].mesh.faces = Append(@, st.vMap[vi])]
    ELSE LET vi2 == Len(st.meshes[k].mesh.positions)
             position == fromArray(values.aPosition, vi * 3)
             normal == normalizeIfNecessary(fromArray(values.aNormal, vi * 3))
         IN  [st EXCEPT !.vMap = (vi :> vi2) @@ @,
                        !.meshes[k].mesh.positions =
                            Append(@, IF isIdentity(transform) THEN position
                                      ELSE transformMat4(position, transform)),
                        !.meshes[k].mesh.normals = Append(@, normal),
                        !.meshes[k].mesh.faces = Append(@, vi2)]

\* colorType 'instance': for (let i = 0; i < drawCount; ++i), on the state
\* [i, meshes, vMap]
RECURSIVE instanceVertices(_, _, _, _)
instanceVertices(values, transform, k, st) ==
    IF ~(st.i < values.drawCount) THEN st
    ELSE instanceVertices(values, transform, k,
            [mapVertex(values, transform, k, values.elements[st.i + 1], st)
                EXCEPT !.i = @ + 1])

groupByInstance(meshes, values, instanceIndex, transform) ==
    LET instance == values.aInstance[instanceIndex + 1]
        color == colorFromArray(values.tColor, instance * 3)
    IN  instanceVertices(values, transform, meshIndexOf(withMeshFor(meshes, color), color),
                         [i |-> 0, meshes |-> withMeshFor(meshes, color),
                          vMap |-> EmptyMap]).meshes

\* colorType 'group': for (let j = 0; j < 3; ++j) within the face at i, on
\* the state [j, meshes, vMap]
RECURSIVE faceVertices(_, _, _, _, _)
faceVertices(values, transform, k, i, st) ==
    IF ~(st.j < 3) THEN st
    ELSE faceVertices(values, transform, k, i,
            [mapVertex(values, transform, k, values.elements[i + st.j + 1], st)
                EXCEPT !.j = @ + 1])

\* the body of  for (let i = 0; i < drawCount; i += 3), on the state
\* [i, meshes, colorToVMap]
groupFace(values, transform, st) ==
    LET group == values.aGroup[values.elements[st.i + 1] + 1]
        color == colorFromArray(values.tColor, group * 3)
        meshes == withMeshFor(st.meshes, color)
        vMap == IF color \in DOMAIN st.colorToVMap THEN st.colorToVMap[color]
                ELSE EmptyMap
        r == faceVertices(values, transform, meshIndexOf(meshes, color), st.i,
                          [j |-> 0, meshes |-> meshes, vMap |-> vMap])
    IN  [i |-> st.i + 3, meshes |-> r.meshes,
         colorToVMap |-> (color :> r.vMap) @@ st.colorToVMap]

RECURSIVE groupFaces(_, _, _)
groupFaces(values, transform, st) ==
    IF ~(st.i < values.drawCount) THEN st
    ELSE groupFaces(values, transform, groupFace(values, transform, st))

groupByGroup(meshes, values, transform) ==
    groupFaces(values, transform,
               [i |-> 0, meshes |-> meshes, colorToVMap |-> EmptyMap]).meshes

\* the body of  for (const renderable of renderables): the instances in
\* turn, on the state [instanceIndex, meshes, threw]
RECURSIVE groupInstances(_, _)
groupInstances(values, st) ==
    IF st.threw \/ ~(st.instanceIndex < values.instanceCount) THEN st
    ELSE LET transform == values.aTransform[st.instanceIndex + 1]
         IN  groupInstances(values,
                CASE values.dColorType = "instance" ->
                        [st EXCEPT !.instanceIndex = @ + 1,
                                   !.meshes = groupByInstance(st.meshes, values,
                                                              st.instanceIndex, transform)]
                  [] values.dColorType = "group" ->
                        [st EXCEPT !.instanceIndex = @ + 1,
                                   !.meshes = groupByGroup(st.meshes, values, transform)]
                  [] OTHER -> [st EXCEPT !.threw = TRUE])

groupRenderable(meshes, values) ==
    groupInstances(values, [instanceIndex |-> 0, meshes |-> meshes, threw |-> FALSE])

(***************************************************************************)
(* The scenes: up to MaxRenderables renderables over four vertices, with   *)
(* one or two drawn faces or none, one or two instances (the second one    *)
(* moved by 100 along x), colored by instance or by group with one or two  *)
(* colors, or with a color type the loop does not support.                 *)
(***************************************************************************)
MaxRenderables == 2

sceneValues(colorType, elements, drawCount, instanceCount, groups, colors) ==
    [aPosition |-> <<0, 0, 0, 1, -1, 10, 2, -2, 20, 3, -3, 30>>,
     aNormal |-> <<0, 0, 1, 0, 0, 1, 0, 2, 0, 1, 0, 0>>,
     elements |-> elements, dColorType |-> colorType, tColor |-> colors,
     drawCount |-> drawCount, instanceCount |-> instanceCount,
     aTransform |-> <<<<0, 0, 0>>, <<100, 0, 0>>>>,
     aInstance |-> <<0, 1>>, aGroup |-> groups]

SceneDraws == {<<<<0, 1, 2>>, 0>>, <<<<0, 1, 2>>, 3>>,
               <<<<0, 1, 2, 2, 1, 3>>, 3>>, <<<<0, 1, 2, 2, 1, 3>>, 6>>}

SceneColors == {<<255, 0, 0, 0, 51, 255>>, <<255, 0, 0, 255, 0, 0>>}

SceneRenderables ==
    { sceneValues("instance", d[1], d[2], n, <<0, 0, 0, 0>>, colors) :
        d \in SceneDraws, n \in 1..2, colors \in SceneColors }
    \cup { sceneValues("group", d[1], d[2], n, groups, <<255, 0, 0, 0, 51, 255>>) :
            d \in SceneDraws, n \in 1..2, groups \in {<<0, 0, 0, 0>>, <<0, 1, 1, 1>>} }
    \cup { sceneValues("uniform", <<0, 1, 2>>, 3, 1, <<0, 0, 0, 0>>, <<255, 0, 0>>) }

GroupInit ==
    /\ renderables \in UNION { [1..n -> SceneRenderables] : n \in 0..MaxRenderables }
    /\ meshByColor = <<>>
    /\ objOut = <<>>
    /\ glbOut = <<>>
    /\ meshPc = "grouping"

\* one turn of the loop over the renderables
GroupRenderable ==
    /\ meshPc = "grouping"
    /\ renderables # <<>>
    /\ \E r \in {groupRenderable(meshByColor, Head(renderables))} :
          /\ meshByColor' = r.meshes
          /\ meshPc' = IF r.threw THEN "threw" ELSE "grouping"
    /\ renderables' = Tail(renderables)
    /\ UNCHANGED <<objOut, glbOut>>
    /\ UNCHANGED meshOthers

(***************************************************************************)
(* C24: the meshes the grouping loop leaves                                *)
(***************************************************************************)
\* every position of the mesh is used by a face
noUnusedVertices(mesh) ==
    \A v \in 0..(Len(mesh.positions) - 1) :
        \E j \in 1..Len(mesh.faces) : mesh.faces[j] = v

\* C24: while and after the grouping loop of create3DModel runs on
\* renderables of color type 'instance' or 'group', every mesh of
\* meshByColor has as many normals as positions, every face index in
\* [0, len(positions)), and every position index used by a face.
C24_GroupedMeshes ==
    meshPc = "grouping" =>
        \A k \in 1..Len(meshByColor) :
            /\ Len(meshByColor[k].mesh.positions) = Len(meshByColor[k].mesh.normals)
            /\ \A j \in 1..Len(meshByColor[k].mesh.faces) :
                  meshByColor[k].mesh.faces[j] \in 0..(Len(meshByColor[k].mesh.positions) - 1)
            /\ noUnusedVertices(meshByColor[k].mesh)

\* the loop is over and left two meshes; the second one holds the face
\* (2, 1, 3) of the scene as (0, 1, 2) over its own three positions, the
\* first of them the vertex 2 of the scene with its normal brought to
\* length 1
C24_Witness ==
    /\ meshPc = "grouping"
    /\ renderables = <<>>
    /\ Len(meshByColor) = 2
    /\ Len(meshByColor[1].mesh.positions) = 3
    /\ SubSeq(meshByColor[2].mesh.faces, 1, 3) = <<0, 1, 2>>
    /\ meshByColor[2].mesh.positions[1] = <<2, -2, 20>>
    /\ meshByColor[2].mesh.normals[1] = <<0, 1, 0>>
    /\ meshByColor[2].mesh.positions[3] = <<3, -3, 30>>

(***************************************************************************)
(* C25: trees with references to prims written later: those of treeOf with *)
(* every relationship aimed at the prim `target` and, when heir is not 0,  *)
(* the metadata key 'inherits' of the prim heir holding the prim base,     *)
(* another prim, created before or after it.                               *)
(***************************************************************************)
MaxRefNodes == 3

refTreeOf(parents, owners, flavors, target, heir, base) ==
    LET tree == treeOf(parents, owners, flavors)
        aimed == [prims |-> tree.prims,
                  atts |-> [a \in 1..Len(tree.atts) |->
                                IF isRelationship(tree.atts[a])
                                THEN [tree.atts[a] EXCEPT !.value.id = target]
                                ELSE tree.atts[a]]]
    IN  IF heir = 0 THEN aimed
        ELSE setMetadata(aimed, heir, "inherits", [t |-> "prim", v |-> base])

UsdRefTrees(maxNodes) ==
    UNION { UNION { { refTreeOf(parents, owners, flavors, target, hb[1], hb[2]) :
                        parents \in { f \in [1..nP -> 1..(nP + 1)] : \A i \in 1..nP : f[i] <= i },
                        owners \in [1..nA -> 1..(nP + 1)],
                        flavors \in { f \in [1..nA -> {"data", "conn", "rel"}] :
                                        nA = 1 => f[1] # "conn" },
                        target \in IF nP = 0 THEN {ROOT} ELSE (ROOT + 1)..(nP + 1),
                        hb \in {<<0, 0>>} \cup
                               { p \in ((ROOT + 1)..(nP + 1)) \X ((ROOT + 1)..(nP + 1)) :
                                    p[1] # p[2] } } :
                    nA \in 0..(maxNodes - nP) } :
            nP \in 0..maxNodes }

UsdRefInit ==
    /\ \E tree \in UsdRefTrees(MaxRefNodes) :
          /\ usdPrims = tree.prims
          /\ usdAtts = tree.atts
    /\ crate = newCrateFile
    /\ usdStack = <<>>
    /\ usdWritten = <<>>
    /\ usdPc = "new"
    /\ crateLog = <<>>

\* the index of the spec of prim p: its place in the order of writing
specIndexOf(p) ==
    (CHOOSE i \in 1..Len(usdWritten) : usdWritten[i] = [kind |-> "prim", id |-> p]) - 1

\* the prims whose metadata holds 'inherits', with the prim it holds
inheritsOf(p) ==
    { usdPrims[p].metadata[i][2].v :
        i \in { j \in 1..Len(usdPrims[p].metadata) : usdPrims[p].metadata[j][1] = "inherits" } }

\* a step of writeUsd or writeUsdPrim that writes the prim p: the index p
\* holds from updatePathIndices is the number of specs written so far, and
\* it is the index of the spec the step adds and the one assigned to p
writesPrimAtItsIndex(p) ==
    /\ usdPrims[p].pathIndex = Len(crate.specs)
    /\ Len(crate'.specs) = Len(crate.specs) + 1
    /\ crate'.specs[Len(crate'.specs)][1] = usdPrims[p].pathIndex
    /\ usdPrims'[p].pathIndex = usdPrims[p].pathIndex

\* the references written hold the index of the spec of the prim they name
referencesAreFinal ==
    /\ \A a \in 1..Len(usdAtts) :
          (isRelationship(usdAtts[a]) /\ \E i \in 1..Len(usdWritten) :
                                            usdWritten[i] = [kind |-> "att", id |-> a]) =>
              refersTo(crate, usdcBytes(crate), usdAtts[a].pathIndex, "targetPaths",
                       "targetChildren", specIndexOf(usdAtts[a].value.id))
    /\ \A p \in (ROOT + 1)..Len(usdPrims) :
          inheritsOf(p) # {} =>
              { pathListOpAt(usdcBytes(crate), ref) :
                  ref \in payloadsOf(crate, specIndexOf(p), "inheritPaths") }
                 = { specIndexOf(b) : b \in inheritsOf(p) }

\* C25: on a new CrateFile, the pathIndex a prim holds from
\* updatePathIndices is the number of specs written when writeUsdPrim (or
\* writeUsd, for the root) writes it, which is the index of its spec; so a
\* relationship to a prim, or an 'inherits' of a prim, written before that
\* prim holds the index of the prim's spec.
C25_IndexPassIsSpecIndex ==
    /\ [][\A p \in 1..Len(usdPrims) :
            (usdPc' # "threw" /\ usdWritten' = Append(usdWritten, [kind |-> "prim", id |-> p]))
                => writesPrimAtItsIndex(p)]_vars
    /\ [](usdPc = "done" => referencesAreFinal)

\* a tree is written in which a relationship was written before the prim
\* it names and a prim before the prim it inherits
C25_Witness ==
    /\ usdPc = "done"
    /\ \E a \in 1..Len(usdAtts) :
          /\ isRelationship(usdAtts[a])
          /\ usdAtts[a].parent # ROOT
          /\ usdAtts[a].pathIndex < specIndexOf(usdAtts[a].value.id)
          /\ refersTo(crate, usdcBytes(crate), usdAtts[a].pathIndex, "targetPaths",
                      "targetChildren", specIndexOf(usdAtts[a].value.id))
    /\ \E p \in (ROOT + 1)..Len(usdPrims) :
          \E b \in inheritsOf(p) : specIndexOf(p) < specIndexOf(b)

(***************************************************************************)
(* C26: the paths and specs tables against the tree                        *)
(***************************************************************************)
\* the nodes of the subtree of prim p in the order: the prim, its child
\* subtrees, its attributes
RECURSIVE subtreeOrder(_, _)
subtreeOrder(prims, p) ==
    (<<[kind |-> "prim", id |-> p]>>
        \o Flatten([i \in 1..Len(prims[p].children) |->
                        subtreeOrder(prims, prims[p].children[i])]))
        \o attItems(prims[p].attributes)

\* the same without the attributes of the root itself
orderBelowRoot(prims) ==
    <<[kind |-> "prim", id |-> ROOT]>>
        \o Flatten([i \in 1..Len(prims[ROOT].children) |->
                        subtreeOrder(prims, prims[ROOT].children[i])])

\* the spec type a node is written with
specTypeOf(node) ==
    IF node.kind = "prim" THEN (IF node.id = ROOT THEN SpecPseudoRoot ELSE SpecPrim)
    ELSE IF ~isConnection(usdAtts[node.id]) /\ isRelationship(usdAtts[node.id])
         THEN SpecRelationship
         ELSE SpecAttribute

nodeName(node) ==
    IF node.kind = "prim" THEN usdPrims[node.id].name ELSE usdAtts[node.id].name

nodePathIndex(node) ==
    IF node.kind = "prim" THEN usdPrims[node.id].pathIndex ELSE usdAtts[node.id].pathIndex

\* both tables hold the nodes of order, one entry each, at the path indices
\* 0, 1, 2, ...
tablesFollow(c, order) ==
    /\ Len(c.paths) = Len(order)
    /\ Len(c.specs) = Len(order)
    /\ \A i \in 1..Len(order) :
          /\ i \in 1..Len(c.paths) /\ i \in 1..Len(c.specs)
          /\ entryIs(c, i - 1, nodeName(order[i]), specTypeOf(order[i]))
          /\ nodePathIndex(order[i]) = i - 1

\* C26 as stated: after writeUsd the paths and the specs table have
\* 1 + the number of prims + the number of attributes entries, the i-th of
\* each with pathIndex i, in the order: a prim, its child subtrees, its
\* attributes.
C26_TablesFollowTree ==
    usdPc = "done" =>
        /\ Len(crate.paths) = 1 + (Len(usdPrims) - 1) + Len(usdAtts)
        /\ tablesFollow(crate, subtreeOrder(usdPrims, ROOT))

\* what the tables hold: the attributes of the root itself are not written;
\* the tables have 1 + the number of prims + the number of attributes of
\* the prims below the root entries, the i-th of each with pathIndex i, in
\* the order: a prim, its child subtrees, its attributes (none for the
\* root).
TablesFollowTreeBelowRoot ==
    usdPc = "done" =>
        /\ Len(crate.paths) = 1 + (Len(usdPrims) - 1)
                                + Cardinality({ a \in 1..Len(usdAtts) : usdAtts[a].parent # ROOT })
        /\ tablesFollow(crate, orderBelowRoot(usdPrims))
        /\ \A a \in 1..Len(usdAtts) :
              usdAtts[a].parent = ROOT =>
                  \A i \in 1..Len(usdWritten) : usdWritten[i] # [kind |-> "att", id |-> a]

(***************************************************************************)
(* C27: where a positive jump leads                                        *)
(***************************************************************************)
\* the node written after the subtree of prim p under its parent: the next
\* child of the parent, or the first attribute of the parent after the last
\* child
nextSibling(p) ==
    LET parent == usdPrims[usdPrims[p].parent]
        k == CHOOSE k \in 1..Len(parent.children) : parent.children[k] = p
    IN  IF k < Len(parent.children) THEN [kind |-> "prim", id |-> parent.children[k + 1]]
        ELSE [kind |-> "att", id |-> parent.attributes[1]]

\* the entry of the paths table at path index i is that of the node
isEntryOf(c, i, node) ==
    /\ i + 1 \in 1..Len(c.paths)
    /\ entryIs(c, i, nodeName(node), specTypeOf(node))
    /\ nodePathIndex(node) = i

\* C27: for every prim whose jump in the paths table is positive, the entry
\* at the prim's own position + jump is that of its next sibling: the next
\* child prim of its parent, or the first attribute of the parent when the
\* prim is the last child.
C27_JumpLeadsToSibling ==
    usdPc = "done" =>
        \A p \in (ROOT + 1)..Len(usdPrims) :
            crate.paths[usdPrims[p].pathIndex + 1][3] > 0 =>
                isEntryOf(crate, usdPrims[p].pathIndex + crate.paths[usdPrims[p].pathIndex + 1][3],
                          nextSibling(p))

\* what holds: the same for the prims that are not children of a root with
\* attributes
JumpLeadsToWrittenSibling ==
    usdPc = "done" =>
        \A p \in (ROOT + 1)..Len(usdPrims) :
            (crate.paths[usdPrims[p].pathIndex + 1][3] > 0
                /\ (usdPrims[p].parent # ROOT \/ usdPrims[ROOT].attributes = <<>>)) =>
                isEntryOf(crate, usdPrims[p].pathIndex + crate.paths[usdPrims[p].pathIndex + 1][3],
                          nextSibling(p))

(***************************************************************************)
(* C28: the rep at the field index addFieldItem returns                    *)
(***************************************************************************)
\* the rep and the field stored at the index a call returned are those of
\* the call
repIsOfCall(c, call) ==
    /\ call.ret + 1 \in 1..Len(c.reps)
    /\ c.reps[call.ret + 1]
          = repBytes(call.vType, call.array, call.inline, call.compressed, call.payload)
    /\ c.fields[call.ret + 1] = call.field

\* C28: after any sequence of addFieldItem calls (with token indices below
\* 256), the rep at the field index a call returned encodes the value
\* type, the flags and the payload of that call; so two calls with the same
\* field, flags and payload but different value types do not return the
\* same field index.
C28_RepIsOfCall ==
    usdPc = "items" =>
        /\ \A i \in 1..Len(crateLog) :
              crateLog[i].field < 256 => repIsOfCall(crate, crateLog[i])
        /\ \A i, j \in 1..Len(crateLog) :
              (/\ crateLog[i].field < 256
               /\ keyParts(crateLog[i]) = keyParts(crateLog[j])
               /\ crateLog[i].vType # crateLog[j].vType)
                  => crateLog[i].ret # crateLog[j].ret

(***************************************************************************)
(* C29: the block an int-array field names                                 *)
(***************************************************************************)
\* the call wrote the block at offset ref, for the data, by addFieldInts
wroteIntsAt(call, data, ref) ==
    /\ call.op = "addFieldInts"
    /\ call.data = data
    /\ call.start = ref
    /\ call.end > call.start

\* C29: the file offset in the rep of the field an addFieldInts call
\* returned is that of a block addFieldInts wrote, in that call or an
\* earlier one, for an element-wise equal array (so raw or compressed as
\* the compressed flag of the field says), never that of a block
\* addFieldTokenVector wrote.
C29_IntsBlockOwn ==
    usdPc = "calls" =>
        \A i \in 1..Len(crateLog) :
            crateLog[i].op = "addFieldInts" =>
                /\ \E j \in 1..i :
                      wroteIntsAt(crateLog[j], crateLog[i].data,
                                  repPayload(crate.reps[crateLog[i].ret + 1]))
                /\ \A j \in 1..i :
                      (crateLog[j].op = "addFieldTokenVector"
                            /\ crateLog[j].end > crateLog[j].start)
                        => crateLog[j].start # repPayload(crate.reps[crateLog[i].ret + 1])

CrateNext == GetTokenIndex \/ AddFieldTokenVector \/ AddFieldInts

CrateStart == CrateInit /\ LzIdle /\ IcIdle /\ ZipIdle /\ MeshIdle

SpecCrate == CrateStart /\ [][CrateNext]_vars

GroupStart == GroupInit /\ LzIdle /\ IcIdle /\ ZipIdle /\ UsdIdle

SpecGroup == GroupStart /\ [][GroupRenderable]_vars

UsdNext ==
    \/ UpdatePathIndices
    \/ WriteBootstrap
    \/ WriteUsdRoot
    \/ WriteUsdPrim
    \/ WriteUsdConnection
    \/ WriteUsdRelationship
    \/ WriteUsdAttribute
    \/ WriteSections
    \/ WriteTableOfContents
    \/ CrateGetUsdz

UsdStart == UsdInit /\ LzIdle /\ IcIdle /\ ZipIdle /\ MeshIdle

SpecUsd == UsdStart /\ [][UsdNext]_vars

UsdRefStart == UsdRefInit /\ LzIdle /\ IcIdle /\ ZipIdle /\ MeshIdle

SpecUsdRef == UsdRefStart /\ [][UsdNext]_vars

UsdzNext == ExportObj \/ ExportGlb \/ ExportUsdz \/ UsdNext

UsdzStart == UsdzInit /\ LzIdle /\ IcIdle /\ ZipIdle

SpecUsdz == UsdzStart /\ [][UsdzNext]_vars

WriteIntStart == WriteIntInit /\ LzIdle /\ IcIdle /\ MeshIdle /\ UsdIdle

SpecWriteInt == WriteIntStart /\ [][WriteInt]_vars

FieldItemStart == FieldItemInit /\ LzIdle /\ IcIdle /\ ZipIdle /\ MeshIdle

SpecFieldItem == FieldItemStart /\ [][AddFieldItem]_vars

UsdErrStart == UsdErrInit /\ LzIdle /\ IcIdle /\ ZipIdle /\ MeshIdle

SpecUsdErr == UsdErrStart /\ [][UsdNext]_vars

=============================================================================
